---- MODULE Spec2Model ----
(***************************************************************************)
(* Memory-management core of pi-os: the buddy allocator                    *)
(* (kernel/src/mm/buddy_allocator.rs), the heap and page allocators built  *)
(* on it, the RAII handles, and the lock primitives of common/src/sync.    *)
(*                                                                         *)
(* Addresses are byte addresses.  Machine words are USIZE_BITS wide.       *)
(***************************************************************************)
EXTENDS Integers, Naturals, Sequences, FiniteSets, TLC

(***************************************************************************)
(* Bounds of the model                                                     *)
(***************************************************************************)
\* Largest order of the model's allocator instances.  The source sets
\* MAX_ORDER = 10 (buddy_allocator.rs:7); the model runs the same code
\* with a smaller value so that blocks of the largest order fit in the
\* regions that are explored.
MAX_ORDER == 4

\* Width of usize in bits (32 on the ARM target); all addresses of the
\* model fit in it.
USIZE_BITS == 20

\* Largest number of allocations alive at once in the block-level runs.
MaxLive == 3

\* Executors contending for one SpinLock, and the updates each performs.
NExec == 3
NUpdates == 2

\* IrqSpinLocks of the core, and the depth to which interrupt handlers
\* nest on top of the ordinary code.
NLocks == 2
MaxNest == 1

\* Contexts (cores) sharing one RwLock.
NThreads == 3

\* Largest number of heap allocations alive at once.
HeapMaxLive == 2

\* Largest number of handles whose drop has run in place.
MaxInPlace == 1

\* Cores that call the allocators, and the largest number of blocks that
\* one of them owns at a time.
NCores == 2
CoreMaxOwn == 1

\* Largest number of table handles alive at once, and of page-table
\* entries written through set_entry.
MaxTables == 2
MaxEntries == 1

\* size_of::<BlockHeader>() and align_of::<BlockHeader>():
\* #[repr(C, align(8))] struct BlockHeader { order: u8 }
SIZE_OF_HEADER == 8
ALIGN_OF_HEADER == 8

\* HeapAllocator::init: const MIN_BLOCK_SIZE: usize = 32
MIN_BLOCK_SIZE == 32

WORD == 2 ^ USIZE_BITS

\* The null pointer.
NULL == 0

\* Option::None of an address.
NONE == -1

Orders == 0 .. MAX_ORDER

(***************************************************************************)
(* Bit operations on machine words, bit by bit.                            *)
(***************************************************************************)
RECURSIVE BitAnd(_, _)
BitAnd(x, y) ==
    IF x = 0 \/ y = 0 THEN 0
    ELSE 2 * BitAnd(x \div 2, y \div 2) + (IF x % 2 = 1 /\ y % 2 = 1 THEN 1 ELSE 0)

RECURSIVE BitXor(_, _)
BitXor(x, y) ==
    IF x = 0 THEN y
    ELSE IF y = 0 THEN x
    ELSE 2 * BitXor(x \div 2, y \div 2) + (IF x % 2 # y % 2 THEN 1 ELSE 0)

\* !x on a machine word.
BitNot(x) == (WORD - 1) - x

\* x << n on a machine word.
Shl(x, n) == (x * (2 ^ n)) % WORD

(***************************************************************************)
(* BuddyAllocator.  A value of the struct is a record; the field next is   *)
(* the memory of the managed range seen as FreeBlock nodes: next[a] is     *)
(* the link stored in the first word of the free block at address a.       *)
(***************************************************************************)
EmptyMem == [a \in {} |-> NULL]

new(min_block_size) ==
    [ free_lists     |-> [k \in Orders |-> NULL],
      base_addr      |-> 0,
      total_size     |-> 0,
      min_block_size |-> min_block_size,
      next           |-> EmptyMem ]

\* (*block).next = self.free_lists[order]; self.free_lists[order] = block
add_to_free_list(b, addr, order) ==
    [b EXCEPT !.next = (addr :> b.free_lists[order]) @@ b.next,
              !.free_lists[order] = addr]

\* Memory without the word at addr: the block has left the free lists and
\* its first word is no longer a link.
Unlink(mem, addr) == [a \in (DOMAIN mem) \ {addr} |-> mem[a]]

\* Mutant: the head is returned but stays on the list.
remove_from_free_list_keep(b, order) ==
    [ba |-> b, res |-> b.free_lists[order]]

\* block = self.free_lists[order]; self.free_lists[order] = (*block).next
remove_from_free_list(b, order) ==
    LET block == b.free_lists[order]
    IN  [ ba  |-> [b EXCEPT !.free_lists[order] = b.next[block],
                            !.next = Unlink(b.next, block)],
          res |-> block ]

\* The walk of remove_specific_from_free_list: prev is the address of the
\* node whose link field `current` points at (NULL for the list head),
\* cur the node looked at.  A walk longer than the number of nodes in
\* memory is a walk around a cycle and never returns.
RECURSIVE remove_specific_walk(_, _, _, _, _, _)
remove_specific_walk(b, addr, order, prev, cur, fuel) ==
    IF cur = NULL THEN [ba |-> b, found |-> FALSE, hung |-> FALSE]
    ELSE IF cur = addr THEN
        [ ba |-> IF prev = NULL
                 THEN [b EXCEPT !.free_lists[order] = b.next[cur],
                                !.next = Unlink(b.next, cur)]
                 ELSE [b EXCEPT !.next = Unlink([b.next EXCEPT ![prev] = b.next[cur]], cur)],
          found |-> TRUE, hung |-> FALSE ]
    ELSE IF fuel = 0 THEN [ba |-> b, found |-> FALSE, hung |-> TRUE]
    ELSE remove_specific_walk(b, addr, order, cur, b.next[cur], fuel - 1)

remove_specific_from_free_list(b, addr, order) ==
    remove_specific_walk(b, addr, order, NULL, b.free_lists[order],
                         Cardinality(DOMAIN b.next))

\* Mutant: the alignment of `current` is not looked at.
RECURSIVE init_order_unaligned(_, _, _, _)
init_order_unaligned(b, current, remaining, order) ==
    IF order > 0
    THEN IF remaining >= Shl(b.min_block_size, order)
         THEN order
         ELSE init_order_unaligned(b, current, remaining, order - 1)
    ELSE 0

\* The inner while loop of init: the largest order > 0 whose block fits in
\* `remaining` at an address aligned to it, 0 when there is none.
RECURSIVE init_order(_, _, _, _)
init_order(b, current, remaining, order) ==
    IF order > 0
    THEN LET block_size == Shl(b.min_block_size, order)
         IN  IF remaining >= block_size /\ BitAnd(current, block_size - 1) = 0
             THEN order
             ELSE init_order(b, current, remaining, order - 1)
    ELSE 0

\* The outer while loop of init.
RECURSIVE init_loop(_, _, _)
init_loop(b, current, end) ==
    IF current + b.min_block_size <= end
    THEN LET remaining == end - current
             order     == init_order(b, current, remaining, MAX_ORDER)
         IN  IF order > 0
             THEN init_loop(add_to_free_list(b, current, order),
                            current + Shl(b.min_block_size, order), end)
             ELSE IF remaining >= b.min_block_size
             THEN init_loop(add_to_free_list(b, current, 0),
                            current + b.min_block_size, end)
             ELSE b
    ELSE b

\* `end - start` of init is below zero: a build with overflow checks
\* panics there, a build without them goes on with the wrapped value.
init_underflows(b, start_addr, end_addr) ==
    BitAnd(end_addr, BitNot(b.min_block_size - 1))
        < BitAnd((start_addr + b.min_block_size - 1) % WORD, BitNot(b.min_block_size - 1))

init(b, start_addr, end_addr) ==
    LET start == BitAnd((start_addr + b.min_block_size - 1) % WORD,
                        BitNot(b.min_block_size - 1))
        end   == BitAnd(end_addr, BitNot(b.min_block_size - 1))
    IN  init_loop([b EXCEPT !.base_addr  = start,
                            !.total_size = (end - start) % WORD,
                            !.free_lists = [k \in Orders |-> NULL]],
                  start, end)

\* Mutant: the loop stops one order early, the half of the largest order
\* is not pushed.
RECURSIVE split_loop_short(_, _, _, _)
split_loop_short(b, block, split_order, order) ==
    IF split_order - 1 > order
    THEN LET buddy == block + Shl(b.min_block_size, split_order - 2)
         IN  split_loop_short(add_to_free_list(b, buddy, split_order - 2),
                              block, split_order - 1, order)
    ELSE b

\* The split loop of alloc_block_order: split_order runs from higher_order
\* down to order + 1.
RECURSIVE split_loop(_, _, _, _)
split_loop(b, block, split_order, order) ==
    IF split_order > order
    THEN LET buddy == block + Shl(b.min_block_size, split_order - 1)
         IN  split_loop(add_to_free_list(b, buddy, split_order - 1),
                        block, split_order - 1, order)
    ELSE b

\* Mutant: the scan stops before MAX_ORDER.
RECURSIVE higher_order_scan_short(_, _, _)
higher_order_scan_short(b, order, higher_order) ==
    IF higher_order >= MAX_ORDER THEN [ba |-> b, res |-> NONE]
    ELSE IF b.free_lists[higher_order] # NULL
    THEN LET r == remove_from_free_list(b, higher_order)
         IN  [ba |-> split_loop(r.ba, r.res, higher_order, order), res |-> r.res]
    ELSE higher_order_scan_short(b, order, higher_order + 1)

\* The scan of the higher orders in alloc_block_order.
RECURSIVE higher_order_scan(_, _, _)
higher_order_scan(b, order, higher_order) ==
    IF higher_order > MAX_ORDER THEN [ba |-> b, res |-> NONE]
    ELSE IF b.free_lists[higher_order] # NULL
    THEN LET r == remove_from_free_list(b, higher_order)
         IN  [ba |-> split_loop(r.ba, r.res, higher_order, order), res |-> r.res]
    ELSE higher_order_scan(b, order, higher_order + 1)

\* Mutant: the largest order is refused.
alloc_block_order_strict(b, order) ==
    IF order >= MAX_ORDER THEN [ba |-> b, res |-> NONE]
    ELSE IF b.free_lists[order] # NULL THEN remove_from_free_list(b, order)
    ELSE higher_order_scan(b, order, order + 1)

alloc_block_order(b, order) ==
    IF order > MAX_ORDER THEN [ba |-> b, res |-> NONE]
    ELSE IF b.free_lists[order] # NULL THEN remove_from_free_list(b, order)
    ELSE higher_order_scan(b, order, order + 1)

\* Mutant: the merged block is given the higher of the two addresses.
RECURSIVE free_loop_max(_, _, _)
free_loop_max(b, current_addr, current_order) ==
    IF current_order < MAX_ORDER
    THEN LET block_size == Shl(b.min_block_size, current_order)
             buddy_addr == BitXor(current_addr, block_size)
         IN  IF buddy_addr < b.base_addr
                \/ buddy_addr >= (b.base_addr + b.total_size) % WORD
             THEN [ba |-> add_to_free_list(b, current_addr, current_order), hung |-> FALSE]
             ELSE LET r == remove_specific_from_free_list(b, buddy_addr, current_order)
                  IN  IF r.hung THEN [ba |-> b, hung |-> TRUE]
                      ELSE IF r.found
                      THEN free_loop_max(r.ba,
                                         IF current_addr > buddy_addr THEN current_addr
                                                                      ELSE buddy_addr,
                                         current_order + 1)
                      ELSE [ba |-> add_to_free_list(b, current_addr, current_order),
                            hung |-> FALSE]
    ELSE [ba |-> add_to_free_list(b, current_addr, current_order), hung |-> FALSE]

\* The merge loop of free_block.
RECURSIVE free_loop(_, _, _)
free_loop(b, current_addr, current_order) ==
    IF current_order < MAX_ORDER
    THEN LET block_size == Shl(b.min_block_size, current_order)
             buddy_addr == BitXor(current_addr, block_size)
         IN  IF buddy_addr < b.base_addr
                \/ buddy_addr >= (b.base_addr + b.total_size) % WORD
             THEN [ba |-> add_to_free_list(b, current_addr, current_order), hung |-> FALSE]
             ELSE LET r == remove_specific_from_free_list(b, buddy_addr, current_order)
                  IN  IF r.hung THEN [ba |-> b, hung |-> TRUE]
                      ELSE IF r.found
                      THEN free_loop(r.ba,
                                     IF current_addr < buddy_addr THEN current_addr
                                                                  ELSE buddy_addr,
                                     current_order + 1)
                      ELSE [ba |-> add_to_free_list(b, current_addr, current_order),
                            hung |-> FALSE]
    ELSE [ba |-> add_to_free_list(b, current_addr, current_order), hung |-> FALSE]

\* Mutant: the block is pushed without looking for its buddy.
free_block_nomerge(b, addr, order) ==
    IF order > MAX_ORDER THEN [ba |-> b, hung |-> FALSE]
    ELSE [ba |-> add_to_free_list(b, addr, order), hung |-> FALSE]

free_block(b, addr, order) ==
    IF order > MAX_ORDER THEN [ba |-> b, hung |-> FALSE]
    ELSE free_loop(b, addr, order)

(***************************************************************************)
(* The heap-flavoured API: alloc(layout) and free(ptr).  h is the memory   *)
(* of the managed range seen as BlockHeaders.                              *)
(***************************************************************************)
\* The headers that the links written into free blocks have not
\* overwritten.
Clobber(h, b) == [a \in (DOMAIN h) \ (DOMAIN b.next) |-> h[a]]

\* Mutant: the loop stops one doubling early.
RECURSIVE order_loop_short(_, _, _)
order_loop_short(order, block_size, total_size) ==
    IF Shl(block_size, 1) < total_size
    THEN order_loop_short(order + 1, Shl(block_size, 1), total_size)
    ELSE [order |-> order, hung |-> FALSE]

\* The loop of alloc that searches the order: block_size is doubled in a
\* machine word until it covers total_size; a block_size that has become 0
\* never does.
RECURSIVE order_loop(_, _, _)
order_loop(order, block_size, total_size) ==
    IF block_size < total_size
    THEN IF Shl(block_size, 1) = 0
         THEN [order |-> order + 1, hung |-> TRUE]
         ELSE order_loop(order + 1, Shl(block_size, 1), total_size)
    ELSE [order |-> order, hung |-> FALSE]

alloc(b, h, size, layout_align) ==
    LET align       == IF layout_align > ALIGN_OF_HEADER THEN layout_align
                                                         ELSE ALIGN_OF_HEADER
        header_size == BitAnd(SIZE_OF_HEADER + align - 1, BitNot(align - 1))
        total_size  == size + header_size
        o           == order_loop(0, b.min_block_size, total_size)
        r           == alloc_block_order(b, o.order)
    IN  IF size = 0
        THEN [ba |-> b, hdr |-> h, res |-> NONE, base |-> NONE, order |-> 0, hung |-> FALSE]
        ELSE IF o.hung
        THEN [ba |-> b, hdr |-> h, res |-> NONE, base |-> NONE, order |-> 0, hung |-> TRUE]
        ELSE IF r.res = NONE
        THEN [ba |-> r.ba, hdr |-> h, res |-> NONE, base |-> NONE, order |-> o.order,
              hung |-> FALSE]
        ELSE [ba    |-> r.ba,
              hdr   |-> (r.res :> (o.order % 256)) @@ Clobber(h, r.ba),
              res   |-> r.res + header_size,
              base  |-> r.res,
              order |-> o.order,
              hung  |-> FALSE]

\* free(ptr).  The header is read at ptr - size_of::<BlockHeader>(); where
\* alloc wrote no header the byte read is whatever the memory holds,
\* `garbage`.
free(b, h, ptr, garbage) ==
    IF ptr = NULL
    THEN [ba |-> b, hdr |-> h, hung |-> FALSE, faddr |-> NULL, forder |-> 0]
    ELSE LET header_addr == ptr - SIZE_OF_HEADER
             order       == IF header_addr \in DOMAIN h THEN h[header_addr] ELSE garbage
             r           == free_block(b, header_addr, order)
         IN  [ba |-> r.ba, hdr |-> Clobber(h, r.ba), hung |-> r.hung,
              faddr |-> header_addr, forder |-> order]


(***************************************************************************)
(* State                                                                   *)
(***************************************************************************)
VARIABLES
    ba,       \* the BuddyAllocator driven through the block-level API
    phase,    \* "new" after BuddyAllocator::new, "ready" after init, "panic"
              \* after a panic, "corrupt" after the release of a block that
              \* was not allocated
    region,   \* <<start_addr, end_addr>> handed to init
    live,     \* the allocations handed out and not yet freed: <<addr, order>>
    last,     \* the last call: [op, order, addr, imm, own, aorder, again];
              \* imm: a free_block of the block that the call right before
              \* it allocated; own: a free_block of a block that was a live
              \* allocation; aorder: the order that the block released was
              \* allocated with, NONE when it was not allocated; again: a
              \* release of the address and order that the call right
              \* before it released
    handles   \* the owning handles alive: [kind, addr, order, freed],
              \* freed being the AllocFlag of a debug build

buddyVars == <<ba, phase, region, live, last, handles>>

VARIABLES
    locked,   \* SpinLock::locked
    data,     \* SpinLock::data, a counter
    spc,      \* per executor: "lock", "read", "write", "drop", "done"
    tmp,      \* per executor: the value read from the counter
    iter      \* per executor: the updates completed

spinVars == <<locked, data, spc, tmp, iter>>

VARIABLES
    irq_enabled,  \* the core takes IRQs (CPSR I bit clear)
    ilocked,      \* IrqSpinLock::locked of each lock
    stack         \* the execution contexts of the core, innermost last:
                  \* the interrupted code below, the running context on top

irqVars == <<irq_enabled, ilocked, stack>>

VARIABLES
    reader_count,  \* RwLock::reader_count
    writer_lock,   \* RwLock::writer_lock
    rpc            \* per context: "idle"; "r_load", "r_inc" inside read();
                   \* "w_cas", "w_load" inside write(); "reading", "writing"
                   \* while it owns a read or a write guard

rwVars == <<reader_count, writer_lock, rpc>>

VARIABLES
    heap,         \* the data of HEAP.inner, an Option<BuddyAllocator>:
                  \* [is_some, b]
    heap_locked,  \* HEAP.inner.locked
    hdr,          \* the BlockHeaders in the heap memory: hdr[a] is the order
                  \* byte written at address a and not overwritten since
    hptrs,        \* the pointers returned by alloc and not yet deallocated:
                  \* [ptr, base, order], base and order being the block
                  \* that alloc_block_order returned for them
    hstack,       \* the execution contexts of the core, innermost last:
                  \* [pc, op]
    hlast,        \* the last call of BuddyAllocator::alloc or ::free
    hstate        \* "run"; "panic" after a panic; "corrupt" after a block
                  \* that is not a live allocation went to free_block

heapVars == <<heap, heap_locked, hdr, hptrs, hstack, hlast, hstate>>

VARIABLES
    sba,      \* the BuddyAllocator of a test scenario
    sregion,  \* <<start_addr, end_addr>> handed to its init
    calls     \* the calls made on it after init, in order: [op, order, of,
              \* addr, res]; op "alloc": alloc_block_order(order) returned
              \* res; op "free": free_block(addr, order) of the block that
              \* call number `of` returned

scenVars == <<sba, sregion, calls>>

VARIABLES
    BUDDY_INITIALIZED,  \* page_allocator.rs: the AtomicBool
    BUDDY_STORAGE,      \* page_allocator.rs: [written, locked, b]; written is
                        \* FALSE while the static is MaybeUninit::uninit(),
                        \* locked the flag of its SpinLock, b its
                        \* BuddyAllocator
    HEAP,               \* heap_allocator.rs: [locked, is_some, b, hdr], the
                        \* SpinLock flag, the Option, its BuddyAllocator and
                        \* the BlockHeaders in the heap
    cpu,                \* per core, the call in progress: [pc, inst, kind, o,
                        \* size, align, blk, reg, snap, res, lres, guards]
    owned,              \* per core, the blocks it was handed and still owns
    lin,                \* the two allocators as the calls executed one
                        \* after the other, in the order in which they wrote,
                        \* leave them; a call that works on anything else
                        \* has the result "diverged" in that execution
    cstate              \* "run"; "panic" after a panic; "ub" after a crash
                        \* on uninitialised memory

smpVars == <<BUDDY_INITIALIZED, BUDDY_STORAGE, HEAP, cpu, owned, lin, cstate>>

VARIABLES
    entries,  \* the page-table entries written through set_entry: the u32
              \* stored at each byte address written so far
    access    \* the last get_entry/set_entry call: [op, kind, base, order,
              \* index, touched, abort]; touched: the bytes it read or
              \* wrote; abort: it ended in the panic of its assert!

tblVars == <<entries, access>>

vars == <<buddyVars, spinVars, irqVars, rwVars, heapVars, scenVars, smpVars, tblVars>>

\* The variables a part of the system leaves alone.
notBuddy == <<spinVars, irqVars, rwVars, heapVars, scenVars, smpVars, tblVars>>
notSpin  == <<buddyVars, irqVars, rwVars, heapVars, scenVars, smpVars, tblVars>>
notIrq   == <<buddyVars, spinVars, rwVars, heapVars, scenVars, smpVars, tblVars>>
notRw    == <<buddyVars, spinVars, irqVars, heapVars, scenVars, smpVars, tblVars>>
notHeap  == <<buddyVars, spinVars, irqVars, rwVars, scenVars, smpVars, tblVars>>
notScen  == <<buddyVars, spinVars, irqVars, rwVars, heapVars, smpVars, tblVars>>
notSmp   == <<buddyVars, spinVars, irqVars, rwVars, heapVars, scenVars, tblVars>>
notBuddyTbl == <<spinVars, irqVars, rwVars, heapVars, scenVars, smpVars>>

Executors == 1 .. NExec

\* The values of the variables of a part of the system that takes no part
\* in a run.
BuddyIdle ==
    /\ ba = new(4)
    /\ phase = "off"
    /\ region = <<0, 0>>
    /\ live = {}
    /\ last = [op |-> "new", order |-> 0, addr |-> NONE, imm |-> FALSE,
               own |-> FALSE, aorder |-> NONE, again |-> FALSE]
    /\ handles = {}

SpinIdle ==
    /\ locked = FALSE
    /\ data = 0
    /\ spc = [e \in Executors |-> "done"]
    /\ tmp = [e \in Executors |-> 0]
    /\ iter = [e \in Executors |-> 0]

IrqLocks == 1 .. NLocks

IrqIdle ==
    /\ irq_enabled = TRUE
    /\ ilocked = [l \in IrqLocks |-> FALSE]
    /\ stack = <<>>

Threads == 1 .. NThreads

RwIdle ==
    /\ reader_count = 0
    /\ writer_lock = FALSE
    /\ rpc = [t \in Threads |-> "idle"]

NoOp == [kind |-> "none", size |-> 0, align |-> 0, ptr |-> NULL, base |-> NULL, order |-> 0,
         ret |-> NULL, osize |-> 0, tag |-> NULL, nbase |-> NULL, norder |-> 0,
         copied |-> 0, ctag |-> NULL]

NoCall == [op |-> "none", ptr |-> NULL, faddr |-> NULL, forder |-> 0,
           base |-> NULL, order |-> 0, align |-> 0, size |-> 0]

HeapIdle ==
    /\ heap = [is_some |-> FALSE, b |-> new(MIN_BLOCK_SIZE)]
    /\ heap_locked = FALSE
    /\ hdr = EmptyMem
    /\ hptrs = {}
    /\ hstack = <<>>
    /\ hlast = NoCall
    /\ hstate = "off"

ScenIdle ==
    /\ sba = new(4)
    /\ sregion = <<0, 0>>
    /\ calls = <<>>

Cores == 1 .. NCores

\* No block.
NoBlk == [inst |-> "none", addr |-> NULL, order |-> 0, ptr |-> NULL]

\* No copy of an allocator.
NoSnap == [b |-> new(0), hdr |-> EmptyMem]

\* A core outside every call.
IdleCtx ==
    [pc |-> "idle", inst |-> "none", kind |-> "none", o |-> 0, size |-> 0, align |-> 1,
     blk |-> NoBlk, reg |-> <<0, 0>>, snap |-> NoSnap, res |-> NoBlk, lres |-> NoBlk,
     guards |-> {}]

SmpIdle ==
    /\ BUDDY_INITIALIZED = FALSE
    /\ BUDDY_STORAGE = [written |-> FALSE, locked |-> FALSE, b |-> new(0)]
    /\ HEAP = [locked |-> FALSE, is_some |-> FALSE, b |-> new(0), hdr |-> EmptyMem]
    /\ cpu = [c \in Cores |-> IdleCtx]
    /\ owned = [c \in Cores |-> {}]
    /\ lin = [page |-> NoSnap, heap |-> NoSnap]
    /\ cstate = "run"

\* No accessor call.
NoAccess == [op |-> "none", kind |-> "none", base |-> NULL, order |-> 0, index |-> 0,
             touched |-> {}, abort |-> FALSE]

TblIdle ==
    /\ entries = EmptyMem
    /\ access = NoAccess

(***************************************************************************)
(* Views of an allocator used to state properties                          *)
(***************************************************************************)
\* The addresses on free list `order`, head first, following the links for
\* at most fuel steps.
RECURSIVE ListFrom(_, _, _)
ListFrom(b, cur, fuel) ==
    IF cur = NULL \/ fuel = 0 \/ cur \notin DOMAIN b.next THEN <<>>
    ELSE <<cur>> \o ListFrom(b, b.next[cur], fuel - 1)

FreeList(b, order) == ListFrom(b, b.free_lists[order], Cardinality(DOMAIN b.next) + 1)

BlockSize(b, order) == b.min_block_size * (2 ^ order)

\* The bytes [addr, addr + size of an order-`order` block).
BlockBytes(b, addr, order) == addr .. (addr + BlockSize(b, order) - 1)

\* The free blocks as <<addr, order, position on its list>>.
FreeEntries(b) ==
    UNION { { <<FreeList(b, k)[i], k, i>> : i \in 1 .. Len(FreeList(b, k)) } : k \in Orders }

(***************************************************************************)
(* Block-level runs: init once, then alloc_block_order and free_block of   *)
(* live allocations at the order they were allocated with.                 *)
(***************************************************************************)
\* min_block_size values handed to BuddyAllocator::new.
MinBlockSizes == {4}

\* Ranges <<start_addr, end_addr>> handed to init: empty after rounding,
\* unaligned at both ends, exactly one block of the largest order, one
\* block of the largest order with smaller ones at both ends.
Regions ==
    { <<4, 4>>, <<5, 6>>, <<4, 22>>, <<5, 40>>, <<10, 78>>, <<64, 128>>, <<57, 135>> }

InitBuddy ==
    /\ ba \in { new(m) : m \in MinBlockSizes }
    /\ phase = "new"
    /\ region = <<0, 0>>
    /\ live = {}
    /\ last = [op |-> "new", order |-> 0, addr |-> NONE, imm |-> FALSE,
               own |-> FALSE, aorder |-> NONE, again |-> FALSE]
    /\ handles = {}
    /\ SpinIdle /\ IrqIdle /\ RwIdle /\ HeapIdle /\ ScenIdle /\ SmpIdle /\ TblIdle

\* init(start_addr, end_addr), in a build with overflow checks or in one
\* without.
BInit(start_addr, end_addr) ==
    /\ phase = "new"
    /\ start_addr <= end_addr
    /\ region' = <<start_addr, end_addr>>
    /\ \E overflow_checks \in BOOLEAN :
           IF overflow_checks /\ init_underflows(ba, start_addr, end_addr)
           THEN /\ phase' = "panic"
                /\ UNCHANGED <<ba, last>>
           ELSE /\ ba' = init(ba, start_addr, end_addr)
                /\ phase' = "ready"
                /\ last' = [op |-> "init", order |-> 0, addr |-> NONE, imm |-> FALSE,
                            own |-> FALSE, aorder |-> NONE, again |-> FALSE]
    /\ UNCHANGED <<live, handles, notBuddy>>

BAlloc(order) ==
    /\ phase = "ready"
    /\ Cardinality(live) < MaxLive
    /\ LET r == alloc_block_order(ba, order)
       IN  /\ ba' = r.ba
           /\ live' = IF r.res = NONE THEN live ELSE live \cup {<<r.res, order>>}
           /\ last' = [op |-> "alloc", order |-> order, addr |-> r.res, imm |-> FALSE,
                       own |-> FALSE, aorder |-> NONE, again |-> FALSE]
    /\ UNCHANGED <<phase, region, handles, notBuddy>>

BFree(blk) ==
    /\ phase = "ready"
    /\ blk \in live
    /\ LET r == free_block(ba, blk[1], blk[2])
       IN  /\ ~r.hung
           /\ ba' = r.ba
    /\ live' = live \ {blk}
    /\ last' = [op |-> "free", order |-> blk[2], addr |-> blk[1],
                imm |-> last.op = "alloc" /\ last.addr = blk[1] /\ last.order = blk[2],
                own |-> TRUE, aorder |-> blk[2], again |-> FALSE]
    /\ UNCHANGED <<phase, region, handles, notBuddy>>

NextBuddy ==
    \/ \E r \in Regions : BInit(r[1], r[2])
    \/ \E k \in 0 .. MAX_ORDER + 1 : BAlloc(k)
    \/ \E blk \in live : BFree(blk)

SpecBuddy == InitBuddy /\ [][NextBuddy]_vars


(***************************************************************************)
(* Properties of the block-level runs                                      *)
(***************************************************************************)
\* start_addr rounded up and end_addr rounded down to min_block_size.
AlignedStart == ((region[1] + ba.min_block_size - 1) \div ba.min_block_size) * ba.min_block_size
AlignedEnd   == (region[2] \div ba.min_block_size) * ba.min_block_size

\* The base addresses of the min_block_size units of the managed range.
Units == { a \in AlignedStart .. (AlignedEnd - 1) : a % ba.min_block_size = 0 }

FreeCover(b, u) == { e \in FreeEntries(b) : u \in BlockBytes(b, e[1], e[2]) }
LiveCover(b, u) == { l \in live : u \in BlockBytes(b, l[1], l[2]) }

\* C1: every min_block_size unit of the managed range belongs to exactly
\* one free-list entry at exactly one order or to exactly one live
\* allocation, and no free or live block reaches outside the range.
C1_Partition ==
    phase = "ready" =>
        /\ \A u \in Units :
               Cardinality(FreeCover(ba, u)) + Cardinality(LiveCover(ba, u)) = 1
        /\ \A e \in FreeEntries(ba) :
               BlockBytes(ba, e[1], e[2]) \subseteq AlignedStart .. (AlignedEnd - 1)
        /\ \A l \in live :
               BlockBytes(ba, l[1], l[2]) \subseteq AlignedStart .. (AlignedEnd - 1)

\* A free_block has just merged or pushed while two allocations of
\* different orders are alive next to free blocks of two orders.
C1_Witness ==
    /\ last.op = "free"
    /\ Cardinality(live) >= 2
    /\ \E l1, l2 \in live : l1[2] # l2[2]
    /\ Cardinality({ e[2] : e \in FreeEntries(ba) }) >= 2

\* C5: from every reachable state, for every order O for which
\* alloc_block_order(O) returns A, free_block(A, O) right after it gives
\* back the free lists (heads and links) of before the allocation, and
\* alloc_block_order(O) then returns A again.
C5_RoundTrip ==
    phase = "ready" =>
        \A O \in Orders :
            LET r1 == alloc_block_order(ba, O)
            IN  r1.res # NONE =>
                    LET f == free_block(r1.ba, r1.res, O)
                    IN  /\ ~f.hung
                        /\ f.ba = ba
                        /\ alloc_block_order(f.ba, O).res = r1.res

\* A block obtained by splitting a larger one has been freed by the very
\* next call, and allocating that order again splits and returns it again.
C5_Witness ==
    /\ last.op = "free"
    /\ last.imm
    /\ ba.free_lists[last.order] = NULL
    /\ alloc_block_order(ba, last.order).res = last.addr

\* Allocating order-0 blocks until alloc_block_order returns None.
RECURSIVE Drain(_, _)
Drain(b, fuel) ==
    LET r == alloc_block_order(b, 0)
    IN  IF r.res = NONE \/ fuel = 0 THEN <<>>
        ELSE <<r.res>> \o Drain(r.ba, fuel - 1)

\* C6: right after init the free-list entries tile
\* [aligned_start, aligned_end): each entry is aligned to its size, lies in
\* the range and is the largest aligned block that fits at its address,
\* every unit is in exactly one entry, and allocating order-0 blocks until
\* exhaustion returns every unit exactly once.
C6_InitTiles ==
    last.op = "init" =>
        /\ \A e \in FreeEntries(ba) :
               /\ e[2] <= MAX_ORDER
               /\ e[1] % BlockSize(ba, e[2]) = 0
               /\ BlockBytes(ba, e[1], e[2]) \subseteq AlignedStart .. (AlignedEnd - 1)
               /\ e[2] < MAX_ORDER =>
                      ~ ( /\ e[1] % BlockSize(ba, e[2] + 1) = 0
                          /\ e[1] + BlockSize(ba, e[2] + 1) <= AlignedEnd )
        /\ \A u \in Units : Cardinality(FreeCover(ba, u)) = 1
        /\ LET d == Drain(ba, Cardinality(Units) + 1)
           IN  /\ Len(d) = Cardinality(Units)
               /\ { d[i] : i \in 1 .. Len(d) } = Units

\* init has run over a range unaligned at both ends and left blocks of at
\* least three orders.
C6_Witness ==
    /\ last.op = "init"
    /\ region[1] # AlignedStart
    /\ region[2] # AlignedEnd
    /\ Cardinality({ e[2] : e \in FreeEntries(ba) }) >= 3

\* A XOR (min_block_size << O).
BuddyOf(b, addr, order) == BitXor(addr, Shl(b.min_block_size, order))

\* The free blocks as <<addr, order>>.
FreeBlocks(b) == { <<e[1], e[2]>> : e \in FreeEntries(b) }

\* C16: from every reachable state, (a) when alloc_block_order(O) splits a
\* larger block and returns A, the block left at the head of every free
\* list k from O up to the order below that of the block split is
\* A XOR (min_block_size << k), the buddy of A at order k; the buddy at
\* order O is what the next alloc_block_order(O) returns, and A is then in
\* no free block; (b) free_block of a live block (A, O) whose buddy
\* A XOR (min_block_size << O) is free at order O leaves one free block of
\* a higher order that holds both.
C16_BuddyIdentity ==
    phase = "ready" =>
        /\ \A O \in Orders :
               LET r == alloc_block_order(ba, O)
               IN  (r.res # NONE /\ ba.free_lists[O] = NULL) =>
                       /\ \A k \in Orders :
                              (k >= O /\ \A j \in O .. k : ba.free_lists[j] = NULL)
                                  => r.ba.free_lists[k] = BuddyOf(ba, r.res, k)
                       /\ LET r2 == alloc_block_order(r.ba, O)
                          IN  /\ r2.res = BuddyOf(ba, r.res, O)
                              /\ \A e \in FreeBlocks(r2.ba) :
                                     r.res \notin BlockBytes(ba, e[1], e[2])
        /\ \A l \in live :
               (l[2] < MAX_ORDER /\ <<BuddyOf(ba, l[1], l[2]), l[2]>> \in FreeBlocks(ba)) =>
                   LET f == free_block(ba, l[1], l[2])
                   IN  /\ ~f.hung
                       /\ \E e \in FreeBlocks(f.ba) :
                              /\ e[2] > l[2]
                              /\ BlockBytes(ba, l[1], l[2]) \subseteq BlockBytes(ba, e[1], e[2])
                              /\ BlockBytes(ba, BuddyOf(ba, l[1], l[2]), l[2])
                                     \subseteq BlockBytes(ba, e[1], e[2])

\* The upper half that a split pushed at an order above 0 has been
\* allocated by a call of its own while the lower half is still allocated.
C16_Witness ==
    /\ last.op = "alloc"
    /\ last.addr # NONE
    /\ last.order >= 1
    /\ BuddyOf(ba, last.addr, last.order) < last.addr
    /\ <<BuddyOf(ba, last.addr, last.order), last.order>> \in live

\* C17: from every reachable state and for every order, MAX_ORDER + 1
\* included, alloc_block_order(order) returns no value exactly when
\* order > MAX_ORDER or no free block of an order >= order exists, and it
\* then leaves the free lists, heads and links, as they were.
C17_ExhaustionIsAbsence ==
    phase = "ready" =>
        \A O \in 0 .. (MAX_ORDER + 1) :
            LET r == alloc_block_order(ba, O)
            IN  /\ (r.res = NONE) <=>
                       (O > MAX_ORDER \/ ~ \E e \in FreeBlocks(ba) : e[2] >= O)
                /\ r.res = NONE => r.ba = ba

\* alloc_block_order(order) has returned no value for an order within
\* MAX_ORDER while smaller blocks are free.
C17_Witness ==
    /\ last.op = "alloc"
    /\ last.addr = NONE
    /\ last.order <= MAX_ORDER
    /\ FreeBlocks(ba) # {}
    /\ \A e \in FreeBlocks(ba) : e[2] < last.order

\* The orders >= order whose free list is not empty.
Stocked(b, order) == { h \in Orders : h >= order /\ b.free_lists[h] # NULL }

\* The least member of a non-empty set of orders.
Least(S) == CHOOSE h \in S : \A j \in S : h <= j

\* C32: from every reachable state and for every order, when some free
\* list of an order >= order is non-empty, alloc_block_order(order) returns
\* the head of the lowest such list h; the free blocks afterwards are those
\* of before without that block and with one block at each order k in
\* order .. h-1, at the returned address + (min_block_size << k); the
\* returned block and the blocks pushed are disjoint and cover the block
\* that was popped.
C32_PopLowestAndSplit ==
    phase = "ready" =>
        \A O \in Orders :
            Stocked(ba, O) # {} =>
                LET h      == Least(Stocked(ba, O))
                    r      == alloc_block_order(ba, O)
                    pushed == { <<r.res + BlockSize(ba, k), k>> : k \in O .. (h - 1) }
                IN  /\ r.res = ba.free_lists[h]
                    /\ FreeBlocks(r.ba) = (FreeBlocks(ba) \ {<<r.res, h>>}) \cup pushed
                    /\ Cardinality(FreeEntries(r.ba))
                           = Cardinality(FreeEntries(ba)) - 1 + (h - O)
                    /\ \A k \in Orders :
                           (k < O \/ k > h) => FreeList(r.ba, k) = FreeList(ba, k)
                    /\ UNION { BlockBytes(ba, e[1], e[2]) : e \in pushed \cup {<<r.res, O>>} }
                           = BlockBytes(ba, r.res, h)
                    /\ \A e, f \in pushed \cup {<<r.res, O>>} :
                           e # f => BlockBytes(ba, e[1], e[2]) \cap BlockBytes(ba, f[1], f[2]) = {}

\* alloc_block_order has split a block two orders or more above the order
\* asked for, not the first block of the range, while an allocation is
\* alive: the halves it pushed are the heads of their lists.
C32_Witness ==
    /\ last.op = "alloc"
    /\ last.addr # NONE
    /\ last.addr # ba.base_addr
    /\ last.order + 1 <= MAX_ORDER
    /\ \A k \in {last.order, last.order + 1} :
           ba.free_lists[k] = last.addr + BlockSize(ba, k)
    /\ Cardinality(live) >= 2

\* C33: in every state reached from init by alloc_block_order and by
\* free_block of live allocations at their order, no free block of an
\* order k < MAX_ORDER has its buddy, address XOR (min_block_size << k),
\* on free list k as well.
C33_EagerCoalescing ==
    phase = "ready" =>
        \A e \in FreeBlocks(ba) :
            e[2] < MAX_ORDER => <<BuddyOf(ba, e[1], e[2]), e[2]>> \notin FreeBlocks(ba)

\* free_block has merged the block it was given into a block of a higher
\* order, and a free block of a lower order is left whose buddy is inside
\* the range, in a live allocation.
C33_Witness ==
    /\ last.op = "free"
    /\ \E e \in FreeBlocks(ba) :
           /\ e[2] > last.order
           /\ last.addr \in BlockBytes(ba, e[1], e[2])
    /\ \E e \in FreeBlocks(ba) :
           /\ e[2] < last.order
           /\ \E l \in live : BuddyOf(ba, e[1], e[2]) \in BlockBytes(ba, l[1], l[2])

\* C34: whenever no allocation is alive, after any sequence of
\* alloc_block_order and free_block of live allocations at their order,
\* the (address, order) pairs on the free lists are those that init
\* produced for the range.
C34_FullReleaseRestoresInit ==
    (phase = "ready" /\ live = {}) =>
        FreeBlocks(ba) = FreeBlocks(init(new(ba.min_block_size), region[1], region[2]))

\* The last of several allocations has been freed, not by the call right
\* after its allocation, in a range unaligned at both ends, and it was
\* merged into a larger block.
C34_Witness ==
    /\ last.op = "free"
    /\ ~last.imm
    /\ live = {}
    /\ region[1] # AlignedStart
    /\ region[2] # AlignedEnd
    /\ <<last.addr, last.order>> \notin FreeBlocks(ba)
    /\ ba.total_size > BlockSize(ba, MAX_ORDER)

\* Free list k is a chain that ends in the null pointer: every node on it
\* is a free block's link word, and the walk from the head ends.
EndsInNull(b, k) ==
    LET l == FreeList(b, k)
    IN  IF l = <<>> THEN b.free_lists[k] = NULL
        ELSE /\ \A i \in 1 .. Len(l) : l[i] \in DOMAIN b.next
             /\ b.next[l[Len(l)]] = NULL

\* C35: in every state reached by init, alloc_block_order and free_block
\* of live allocations at their order, every free list is a chain that
\* ends in the null pointer with no address on it twice, and every entry
\* of list k is aligned to min_block_size << k with its whole block inside
\* [base_addr, base_addr + total_size).
C35_FreeListsWellFormed ==
    phase = "ready" =>
        \A k \in Orders :
            LET l == FreeList(ba, k)
            IN  /\ EndsInNull(ba, k)
                /\ \A i, j \in 1 .. Len(l) : l[i] = l[j] => i = j
                /\ \A i \in 1 .. Len(l) :
                       /\ l[i] % BlockSize(ba, k) = 0
                       /\ ba.base_addr <= l[i]
                       /\ l[i] + BlockSize(ba, k) <= ba.base_addr + ba.total_size

\* free_block has taken a buddy off a list and pushed the merged block,
\* and a free list holds three blocks.
C35_Witness ==
    /\ last.op = "free"
    /\ <<last.addr, last.order>> \notin FreeBlocks(ba)
    /\ \E k \in Orders : Len(FreeList(ba, k)) >= 3

\* The total size of the blocks on the free lists of the orders from k up.
RECURSIVE FreeBytesFrom(_, _)
FreeBytesFrom(b, k) ==
    IF k > MAX_ORDER THEN 0
    ELSE Len(FreeList(b, k)) * BlockSize(b, k) + FreeBytesFrom(b, k + 1)

\* alloc_block_order(k) returns no value although the blocks on the free
\* lists add up to min_block_size << k or more.
Defeated(b, k) ==
    /\ alloc_block_order(b, k).res = NONE
    /\ FreeBytesFrom(b, 0) >= BlockSize(b, k)

\* C36: alloc_block_order(k) can return no value although the total size
\* of the free blocks is at least min_block_size << k (C36_Witness is such
\* a state), and whenever it does, the free bytes are scattered: every
\* free block is of an order below k, there are two or more of them, and
\* every aligned block of order k inside the managed range holds a live
\* allocation.
C36_FragmentationDefeats ==
    phase = "ready" =>
        \A k \in Orders :
            Defeated(ba, k) =>
                /\ \A e \in FreeBlocks(ba) : e[2] < k
                /\ Cardinality(FreeBlocks(ba)) >= 2
                /\ \A a \in ba.base_addr .. (ba.base_addr + ba.total_size - 1) :
                       ( /\ a % BlockSize(ba, k) = 0
                         /\ a + BlockSize(ba, k) <= ba.base_addr + ba.total_size )
                       => \E l \in live :
                              BlockBytes(ba, l[1], l[2]) \cap BlockBytes(ba, a, k) # {}

\* alloc_block_order(k) has just returned no value for an order within
\* MAX_ORDER while allocations are alive and the free blocks, none of
\* which touches another, add up to min_block_size << k or more.
C36_Witness ==
    /\ last.op = "alloc"
    /\ last.addr = NONE
    /\ last.order <= MAX_ORDER
    /\ live # {}
    /\ FreeBytesFrom(ba, 0) >= BlockSize(ba, last.order)
    /\ \A e, f \in FreeBlocks(ba) : e[1] + BlockSize(ba, e[2]) # f[1]

\* No block of min_block_size bytes at a multiple of min_block_size lies
\* in [start_addr, end_addr).
NoWholeBlock ==
    ~ \E a \in region[1] .. region[2] :
          a % ba.min_block_size = 0 /\ a + ba.min_block_size <= region[2]

\* C39: for every start_addr <= end_addr, init returns with total_size
\* equal to aligned_end - aligned_start, a difference that is not below
\* zero, and equal to the sum of the sizes of the blocks on the free
\* lists; when no whole block lies in the range, total_size is 0 and
\* every free list is empty.
C39_InitTotalSize ==
    /\ phase # "panic"
    /\ last.op = "init" =>
           /\ AlignedStart <= AlignedEnd
           /\ ba.total_size = AlignedEnd - AlignedStart
           /\ ba.total_size = FreeBytesFrom(ba, 0)
           /\ NoWholeBlock =>
                  (ba.total_size = 0 /\ \A k \in Orders : ba.free_lists[k] = NULL)


(***************************************************************************)
(* SpinLock (common/src/sync/spinlock.rs): NExec executors, each           *)
(* performing NUpdates read-increment-write updates of the protected       *)
(* counter between lock() and the drop of the guard.                       *)
(***************************************************************************)
\* Mutant: the exchange succeeds whatever the current value is.
compare_exchange_blind(cur, expected, desired) ==
    [ok |-> TRUE, val |-> desired]

\* AtomicBool::compare_exchange(expected, desired) on the value cur.
compare_exchange(cur, expected, desired) ==
    IF cur = expected THEN [ok |-> TRUE, val |-> desired]
    ELSE [ok |-> FALSE, val |-> cur]

InitSpin ==
    /\ locked = FALSE
    /\ data = 0
    /\ spc = [e \in Executors |-> "lock"]
    /\ tmp = [e \in Executors |-> 0]
    /\ iter = [e \in Executors |-> 0]
    /\ BuddyIdle /\ IrqIdle /\ RwIdle /\ HeapIdle /\ ScenIdle /\ SmpIdle /\ TblIdle

\* One turn of the loop of SpinLock::lock: the guard is returned when the
\* exchange succeeds, spin_loop() and another turn when it fails.
SLock(e) ==
    /\ spc[e] = "lock"
    /\ LET r == compare_exchange(locked, FALSE, TRUE)
       IN  /\ locked' = r.val
           /\ spc' = [spc EXCEPT ![e] = IF r.ok THEN "read" ELSE "lock"]
    /\ UNCHANGED <<data, tmp, iter, notSpin>>

\* Deref of the guard: the counter is read.
SRead(e) ==
    /\ spc[e] = "read"
    /\ tmp' = [tmp EXCEPT ![e] = data]
    /\ spc' = [spc EXCEPT ![e] = "write"]
    /\ UNCHANGED <<locked, data, iter, notSpin>>

\* DerefMut of the guard: the incremented value is written.
SWrite(e) ==
    /\ spc[e] = "write"
    /\ data' = tmp[e] + 1
    /\ spc' = [spc EXCEPT ![e] = "drop"]
    /\ UNCHANGED <<locked, tmp, iter, notSpin>>

\* SpinLockGuard::drop
SDrop(e) ==
    /\ spc[e] = "drop"
    /\ locked' = FALSE
    /\ iter' = [iter EXCEPT ![e] = iter[e] + 1]
    /\ spc' = [spc EXCEPT ![e] = IF iter[e] + 1 < NUpdates THEN "lock" ELSE "done"]
    /\ UNCHANGED <<data, tmp, notSpin>>

NextSpin ==
    \/ \E e \in Executors : SLock(e)
    \/ \E e \in Executors : SRead(e)
    \/ \E e \in Executors : SWrite(e)
    \/ \E e \in Executors : SDrop(e)

SpecSpin == InitSpin /\ [][NextSpin]_vars

\* The executors that hold a SpinLockGuard.
SpinGuards == { e \in Executors : spc[e] \in {"read", "write", "drop"} }

\* C2: at most one SpinLockGuard is alive at any time, and when every
\* executor has performed its NUpdates updates the counter is
\* NExec * NUpdates.
C2_MutualExclusion ==
    /\ Cardinality(SpinGuards) <= 1
    /\ (\A e \in Executors : spc[e] = "done") => data = NExec * NUpdates

\* Every executor has finished all its updates.
C2_Witness ==
    /\ \A e \in Executors : spc[e] = "done" /\ iter[e] = NUpdates
    /\ data = NExec * NUpdates


(***************************************************************************)
(* SpinLock under contention without a bound on the number of calls:       *)
(* every executor calls lock() as often as it likes ("idle" -> "lock"),    *)
(* holds the guard ("read", then "drop" once it has dereferenced it),      *)
(* drops it, and may stop for good ("done").  A holder may also call       *)
(* lock() on the SpinLock again with its guard alive ("relock").  iter[e]  *)
(* is 1 when the call of e in progress has found the flag set at least     *)
(* once.  Each core keeps executing: the steps inside lock(), the use of   *)
(* the guard and its drop are weakly fair; calling lock() and stopping     *)
(* are up to the caller.                                                   *)
(***************************************************************************)
InitSpinFair ==
    /\ locked = FALSE
    /\ data = 0
    /\ spc = [e \in Executors |-> "idle"]
    /\ tmp = [e \in Executors |-> 0]
    /\ iter = [e \in Executors |-> 0]
    /\ BuddyIdle /\ IrqIdle /\ RwIdle /\ HeapIdle /\ ScenIdle /\ SmpIdle /\ TblIdle

\* A context calls lock().
FCall(e) ==
    /\ spc[e] = "idle"
    /\ spc' = [spc EXCEPT ![e] = "lock"]
    /\ iter' = [iter EXCEPT ![e] = 0]
    /\ UNCHANGED <<locked, data, tmp, notSpin>>

\* A context makes no further call.
FStop(e) ==
    /\ spc[e] = "idle"
    /\ spc' = [spc EXCEPT ![e] = "done"]
    /\ UNCHANGED <<locked, data, tmp, iter, notSpin>>

\* One turn of the loop of SpinLock::lock: the guard is returned when the
\* compare-exchange succeeds, spin_loop() and another turn when it fails.
FLock(e) ==
    /\ spc[e] = "lock"
    /\ LET r == compare_exchange(locked, FALSE, TRUE)
       IN  /\ locked' = r.val
           /\ spc' = [spc EXCEPT ![e] = IF r.ok THEN "read" ELSE "lock"]
           /\ iter' = [iter EXCEPT ![e] = IF r.ok THEN @ ELSE 1]
    /\ UNCHANGED <<data, tmp, notSpin>>

\* Deref of the guard: the holder reads the protected value.
FDeref(e) ==
    /\ spc[e] = "read"
    /\ tmp' = [tmp EXCEPT ![e] = data]
    /\ spc' = [spc EXCEPT ![e] = "drop"]
    /\ UNCHANGED <<locked, data, iter, notSpin>>

\* Mutant: the drop of the guard leaves the flag as it is.
FDrop_keep(e) ==
    /\ spc[e] = "drop"
    /\ spc' = [spc EXCEPT ![e] = "idle"]
    /\ UNCHANGED <<locked, data, tmp, iter, notSpin>>

\* SpinLockGuard::drop: self.lock.locked.store(false).
FDrop(e) ==
    /\ spc[e] = "drop"
    /\ locked' = FALSE
    /\ spc' = [spc EXCEPT ![e] = "idle"]
    /\ UNCHANGED <<data, tmp, iter, notSpin>>

\* A context that holds a guard calls lock() on the same SpinLock.
FRelock(e) ==
    /\ spc[e] \in {"read", "drop"}
    /\ spc' = [spc EXCEPT ![e] = "relock"]
    /\ iter' = [iter EXCEPT ![e] = 0]
    /\ UNCHANGED <<locked, data, tmp, notSpin>>

\* One turn of the loop of SpinLock::lock in the call of a holder.
FSpin(e) ==
    /\ spc[e] = "relock"
    /\ LET r == compare_exchange(locked, FALSE, TRUE)
       IN  /\ locked' = r.val
           /\ spc' = [spc EXCEPT ![e] = IF r.ok THEN "read" ELSE "relock"]
           /\ iter' = [iter EXCEPT ![e] = IF r.ok THEN @ ELSE 1]
    /\ UNCHANGED <<data, tmp, notSpin>>

NextSpinFair ==
    \/ \E e \in Executors : FCall(e)
    \/ \E e \in Executors : FStop(e)
    \/ \E e \in Executors : FLock(e)
    \/ \E e \in Executors : FDeref(e)
    \/ \E e \in Executors : FDrop(e)
    \/ \E e \in Executors : FRelock(e)
    \/ \E e \in Executors : FSpin(e)

SpecSpinFair ==
    /\ InitSpinFair
    /\ [][NextSpinFair]_vars
    /\ \A e \in Executors :
          /\ WF_vars(FLock(e))
          /\ WF_vars(FDeref(e))
          /\ WF_vars(FDrop(e))
          /\ WF_vars(FSpin(e))

\* No holder is inside a lock() call on the lock it holds.
NoRelock == \A e \in Executors : spc[e] # "relock"

\* C23: when no holder re-acquires the lock it holds (every holder then
\* drops its guard, by the fairness of SpecSpinFair), every lock() call
\* eventually returns a guard.
C23_EveryLockReturns ==
    []NoRelock => \A e \in Executors : (spc[e] = "lock") ~> (spc[e] = "read")

\* C23, amended: when moreover the other contexts call lock() only
\* finitely often, the lock() call of a context eventually returns a guard.
C23_LockReturnsAmongFinitelyManyCalls ==
    \A e \in Executors :
        ( /\ []NoRelock
          /\ <>[](\A f \in Executors \ {e} : spc[f] \in {"idle", "done"}) )
        => ((spc[e] = "lock") ~> (spc[e] = "read"))

\* A lock() call that found the flag set has returned its guard after every
\* other context has made its last call, each of them having held the lock.
C23_Witness ==
    \E e \in Executors :
        /\ spc[e] = "read" /\ iter[e] = 1
        /\ \A f \in Executors \ {e} : spc[f] = "done" /\ iter[f] = 1

\* C24: a holder that calls lock() again stays in that call, and in every
\* state in which a holder is in such a call the flag is set and no other
\* context holds a guard or gets one.
C24_RelockNeverReturns ==
    [][\A e \in Executors :
          /\ spc[e] = "relock" => spc'[e] = "relock"
          /\ spc'[e] = "relock" =>
                /\ locked'
                /\ \A f \in Executors \ {e} : spc'[f] \notin {"read", "drop", "relock"}]_vars

\* A holder spins in its second lock() call while another context spins
\* in lock() as well.
C24_Witness ==
    \E e \in Executors :
        /\ spc[e] = "relock" /\ iter[e] = 1
        /\ \E f \in Executors \ {e} : spc[f] = "lock" /\ iter[f] = 1


(***************************************************************************)
(* IrqSpinLock (common/src/sync/irq_spinlock.rs) with ArmIrq               *)
(* (common/src/arch/arm/irq.rs) on one core.  A context is                 *)
(*   [pc, lk, st, guards]                                                  *)
(* pc: "run"; "spin" inside lock() after I::disable(); "restore" inside    *)
(* the guard's drop after the store; "entry" and "exit" of a handler.      *)
(* lk: the lock being acquired; st: the irq_state at hand; guards: the     *)
(* IrqSpinLockGuards the context owns, each [lock, irq_state].             *)
(***************************************************************************)
Top == stack[Len(stack)]

SetTop(c) == [stack EXCEPT ![Len(stack)] = c]

\* Mutant: the interrupts are left as they are.
ArmIrq_disable_nop(enabled) == [state |-> enabled, enabled |-> enabled]

\* ArmIrq::disable: reads CPSR, cpsid i; TRUE when IRQs were enabled.
ArmIrq_disable(enabled) == [state |-> enabled, enabled |-> FALSE]

\* ArmIrq::restore: cpsie i when prev_enabled.
ArmIrq_restore(prev_enabled, enabled) == IF prev_enabled THEN TRUE ELSE enabled

InitIrq ==
    /\ irq_enabled \in BOOLEAN
    /\ ilocked = [l \in IrqLocks |-> FALSE]
    /\ stack = << [pc |-> "run", lk |-> 0, st |-> FALSE, guards |-> {}] >>
    /\ BuddyIdle /\ SpinIdle /\ RwIdle /\ HeapIdle /\ ScenIdle /\ SmpIdle /\ TblIdle

\* IrqSpinLock::lock, first half: let irq_state = I::disable().
ILockDisable(l) ==
    /\ Top.pc = "run"
    /\ \A g \in Top.guards : g.lock # l
    /\ LET r == ArmIrq_disable(irq_enabled)
       IN  /\ irq_enabled' = r.enabled
           /\ stack' = SetTop([Top EXCEPT !.pc = "spin", !.lk = l, !.st = r.state])
    /\ UNCHANGED <<ilocked, notIrq>>

\* IrqSpinLock::lock, one turn of the loop: the guard is built when the
\* exchange succeeds.
ILockSpin ==
    /\ Top.pc = "spin"
    /\ LET r == compare_exchange(ilocked[Top.lk], FALSE, TRUE)
       IN  /\ ilocked' = [ilocked EXCEPT ![Top.lk] = r.val]
           /\ stack' = SetTop(IF r.ok
                              THEN [Top EXCEPT !.pc = "run",
                                               !.guards = @ \cup {[lock |-> Top.lk,
                                                                   irq_state |-> Top.st]}]
                              ELSE Top)
    /\ UNCHANGED <<irq_enabled, notIrq>>

\* IrqSpinLockGuard::drop, first half: locked.store(false).  Any guard the
\* context owns can be dropped.
IDropStore(g) ==
    /\ Top.pc = "run"
    /\ g \in Top.guards
    /\ ilocked' = [ilocked EXCEPT ![g.lock] = FALSE]
    /\ stack' = SetTop([Top EXCEPT !.pc = "restore", !.st = g.irq_state,
                                   !.guards = @ \ {g}])
    /\ UNCHANGED <<irq_enabled, notIrq>>

\* IrqSpinLockGuard::drop, second half: I::restore(self.irq_state).
IDropRestore ==
    /\ Top.pc = "restore"
    /\ irq_enabled' = ArmIrq_restore(Top.st, irq_enabled)
    /\ stack' = SetTop([Top EXCEPT !.pc = "run"])
    /\ UNCHANGED <<ilocked, notIrq>>

\* An IRQ is taken: the core masks IRQs and enters the handler.
IrqTaken ==
    /\ irq_enabled
    /\ Len(stack) <= MaxNest
    /\ irq_enabled' = FALSE
    /\ stack' = Append(stack, [pc |-> "entry", lk |-> 0, st |-> FALSE, guards |-> {}])
    /\ UNCHANGED <<ilocked, notIrq>>

\* irq::dispatch enables interrupts before it calls the handler.
DispatchEnable ==
    /\ Top.pc = "entry"
    /\ irq_enabled' = TRUE
    /\ stack' = SetTop([Top EXCEPT !.pc = "run"])
    /\ UNCHANGED <<ilocked, notIrq>>

\* The handler has returned (its guards are dropped with its scope):
\* irq::dispatch disables interrupts.
DispatchDisable ==
    /\ Len(stack) > 1
    /\ Top.pc = "run"
    /\ Top.guards = {}
    /\ irq_enabled' = FALSE
    /\ stack' = SetTop([Top EXCEPT !.pc = "exit"])
    /\ UNCHANGED <<ilocked, notIrq>>

\* Return from the exception: CPSR is restored from SPSR; an IRQ is only
\* taken with IRQs enabled.
IrqReturn ==
    /\ Len(stack) > 1
    /\ Top.pc = "exit"
    /\ irq_enabled' = TRUE
    /\ stack' = SubSeq(stack, 1, Len(stack) - 1)
    /\ UNCHANGED <<ilocked, notIrq>>

NextIrq ==
    \/ \E l \in IrqLocks : ILockDisable(l)
    \/ ILockSpin
    \/ \E g \in Top.guards : IDropStore(g)
    \/ IDropRestore
    \/ IrqTaken
    \/ DispatchEnable
    \/ DispatchDisable
    \/ IrqReturn

SpecIrq == InitIrq /\ [][NextIrq]_vars

\* The guards alive on the core.
IrqGuards == UNION { stack[i].guards : i \in 1 .. Len(stack) }

\* C3: in every reachable state in which some IrqSpinLockGuard is alive on
\* the core, whatever the number of locks held and the order in which the
\* guards are dropped, the core's interrupts are disabled.
C3_IrqOffWhileGuardAlive ==
    IrqGuards # {} => ~irq_enabled

\* C11: the drop of an IrqSpinLockGuard leaves the core's interrupts as
\* they were right before the lock() call that built the guard (the state
\* that I::disable() returned and the guard kept): enabled when they were
\* enabled, disabled when they were disabled.
C11_DropRestoresPriorState ==
    [][IDropRestore => (irq_enabled' = Top.st)]_vars

\* C12: no handler spins in lock() on a flag held by a guard of the code
\* it interrupted.
C12_NoHandlerSpinsOnHeldFlag ==
    \A i \in 2 .. Len(stack) :
        stack[i].pc = "spin" =>
            ~ \E j \in 1 .. (i - 1) : \E g \in stack[j].guards : g.lock = stack[i].lk


(***************************************************************************)
(* RwLock (common/src/sync/rwlock.rs): NThreads contexts calling read()    *)
(* and write() and dropping the guards, one atomic access per step.        *)
(***************************************************************************)
InitRw ==
    /\ reader_count = 0
    /\ writer_lock = FALSE
    /\ rpc = [t \in Threads |-> "idle"]
    /\ BuddyIdle /\ SpinIdle /\ IrqIdle /\ HeapIdle /\ ScenIdle /\ SmpIdle /\ TblIdle

\* A context calls read().
RCall(t) ==
    /\ rpc[t] = "idle"
    /\ rpc' = [rpc EXCEPT ![t] = "r_load"]
    /\ UNCHANGED <<reader_count, writer_lock, notRw>>

\* read(): while self.writer_lock.load() { spin_loop() }
RLoad(t) ==
    /\ rpc[t] = "r_load"
    /\ rpc' = [rpc EXCEPT ![t] = IF writer_lock THEN "r_load" ELSE "r_inc"]
    /\ UNCHANGED <<reader_count, writer_lock, notRw>>

\* read(): self.reader_count.fetch_add(1); the read guard is returned.
RInc(t) ==
    /\ rpc[t] = "r_inc"
    /\ reader_count' = reader_count + 1
    /\ rpc' = [rpc EXCEPT ![t] = "reading"]
    /\ UNCHANGED <<writer_lock, notRw>>

\* A context calls write().
WCall(t) ==
    /\ rpc[t] = "idle"
    /\ rpc' = [rpc EXCEPT ![t] = "w_cas"]
    /\ UNCHANGED <<reader_count, writer_lock, notRw>>

\* write(): the left operand of the loop condition,
\* writer_lock.compare_exchange(false, true).is_err(); when it is true the
\* right operand is not evaluated and the loop turns.
WCas(t) ==
    /\ rpc[t] = "w_cas"
    /\ LET r == compare_exchange(writer_lock, FALSE, TRUE)
       IN  /\ writer_lock' = r.val
           /\ rpc' = [rpc EXCEPT ![t] = IF r.ok THEN "w_load" ELSE "w_cas"]
    /\ UNCHANGED <<reader_count, notRw>>

\* write(): the right operand, self.reader_count.load() > 0; the loop
\* turns when it is true, the write guard is returned when it is false.
WLoad(t) ==
    /\ rpc[t] = "w_load"
    /\ rpc' = [rpc EXCEPT ![t] = IF reader_count > 0 THEN "w_cas" ELSE "writing"]
    /\ UNCHANGED <<reader_count, writer_lock, notRw>>

\* Mutant: the drop of a read guard leaves the count as it is.
RDrop_forget(t) ==
    /\ rpc[t] = "reading"
    /\ rpc' = [rpc EXCEPT ![t] = "idle"]
    /\ UNCHANGED <<reader_count, writer_lock, notRw>>

\* RwLockGuard::drop of a read guard: reader_count.fetch_sub(1).
RDrop(t) ==
    /\ rpc[t] = "reading"
    /\ reader_count' = reader_count - 1
    /\ rpc' = [rpc EXCEPT ![t] = "idle"]
    /\ UNCHANGED <<writer_lock, notRw>>

\* RwLockGuard::drop of a write guard: writer_lock.store(false).
WDrop(t) ==
    /\ rpc[t] = "writing"
    /\ writer_lock' = FALSE
    /\ rpc' = [rpc EXCEPT ![t] = "idle"]
    /\ UNCHANGED <<reader_count, notRw>>

NextRw ==
    \/ \E t \in Threads : RCall(t)
    \/ \E t \in Threads : RLoad(t)
    \/ \E t \in Threads : RInc(t)
    \/ \E t \in Threads : WCall(t)
    \/ \E t \in Threads : WCas(t)
    \/ \E t \in Threads : WLoad(t)
    \/ \E t \in Threads : RDrop(t)
    \/ \E t \in Threads : WDrop(t)

SpecRw == InitRw /\ [][NextRw]_vars

ReadGuards  == { t \in Threads : rpc[t] = "reading" }
WriteGuards == { t \in Threads : rpc[t] = "writing" }

\* C9: in every reachable state either no write guard is alive, or exactly
\* one write guard is alive and no read guard is alive.
C9_ReadersOrWriter ==
    \/ WriteGuards = {}
    \/ Cardinality(WriteGuards) = 1 /\ ReadGuards = {}

\* C10: a write() that found the reader count non-zero is not blocked for
\* ever.  Only the drop of a write guard clears writer_lock, so a context
\* that waits in the loop of write() while no guard is alive and no other
\* context is inside write() can only ever leave the loop when the flag
\* is clear: its next compare-exchange then succeeds.
C10_WriteNotBlocked ==
    \A t \in Threads :
        ( /\ rpc[t] = "w_cas"
          /\ ReadGuards = {} /\ WriteGuards = {}
          /\ \A u \in Threads \ {t} : rpc[u] \notin {"w_cas", "w_load"} )
        => ~writer_lock

\* C22: the flag of a lock is set exactly while a guard obtained through it
\* is alive (for RwLock: a write guard, or the write() whose
\* compare-exchange has just set the flag and that is reading the reader
\* count before it returns the guard): SpinLock.locked, IrqSpinLock.locked
\* and RwLock.writer_lock have no state in which the flag is set and
\* nobody holds the lock.
C22_FlagSetIffGuardAlive ==
    /\ locked <=> SpinGuards # {}
    /\ \A l \in IrqLocks : ilocked[l] <=> (\E g \in IrqGuards : g.lock = l)
    /\ writer_lock <=> (WriteGuards # {} \/ \E t \in Threads : rpc[t] = "w_load")

\* C37: reader_count is the number of read guards that read() returned
\* and that were not dropped, and is never below zero; the step that drops
\* a read guard takes exactly one off the count; the step that drops a
\* write guard leaves the count as it is and clears writer_lock.
C37_ReaderAccounting ==
    /\ [](reader_count = Cardinality(ReadGuards) /\ reader_count >= 0)
    /\ [][\A t \in Threads :
              /\ (rpc[t] = "reading" /\ rpc'[t] = "idle") =>
                     reader_count' = reader_count - 1
              /\ (rpc[t] = "writing" /\ rpc'[t] = "idle") =>
                     (reader_count' = reader_count /\ ~writer_lock')]_vars

\* Every read guard has been dropped and the count is back at zero after
\* a write() saw it above zero: writer_lock is set, no guard is alive and
\* no write() is past its compare-exchange.
C37_Witness ==
    /\ reader_count = 0
    /\ ReadGuards = {} /\ WriteGuards = {}
    /\ writer_lock
    /\ \A t \in Threads : rpc[t] # "w_load"
    /\ \E t \in Threads : rpc[t] = "r_load"


(***************************************************************************)
(* HeapAllocator (kernel/src/mm/heap_allocator.rs): the global allocator,  *)
(* a BuddyAllocator behind a SpinLock, called by the ordinary code of a    *)
(* core and by interrupt handlers that preempt it.  A context is           *)
(* [pc, op]: pc is "idle"; "lock" in SpinLock::lock; "crit" with the       *)
(* guard; "drop" before the guard's drop.  op is the call in progress:     *)
(* kind "alloc" with size and align; kind "dealloc" with the pointer ptr   *)
(* and the block (base, order) that alloc obtained for it; kind "realloc"  *)
(* with both, during its call of alloc, after which it goes on as the      *)
(* dealloc of the old pointer; ret is the pointer that the call returns.   *)
(***************************************************************************)
\* Ranges handed to init_heap.
HeapRegions == { <<32, 160>>, <<60, 200>> }

\* Layouts <<size, align>> handed to alloc.
Layouts == { <<1, 1>>, <<24, 8>>, <<40, 8>>, <<1, 16>>, <<1, 32>> }

\* Layouts handed to alloc by an interrupt handler.
HandlerLayouts == { <<1, 1>> }

\* The values of a byte that alloc did not write: every order and one
\* value above MAX_ORDER.
GarbageBytes == 0 .. (MAX_ORDER + 1)

HTop == hstack[Len(hstack)]

HSetTop(c) == [hstack EXCEPT ![Len(hstack)] = c]

InitHeap ==
    /\ heap = [is_some |-> FALSE, b |-> new(MIN_BLOCK_SIZE)]
    /\ heap_locked = FALSE
    /\ hdr = EmptyMem
    /\ hptrs = {}
    /\ hstack = << [pc |-> "idle", op |-> NoOp] >>
    /\ hlast = NoCall
    /\ hstate = "run"
    /\ BuddyIdle /\ SpinIdle /\ IrqIdle /\ RwIdle /\ ScenIdle /\ SmpIdle /\ TblIdle

\* init_heap(start, end), during early kernel initialisation: the lock is
\* taken, an initialised heap is a panic, the BuddyAllocator is built and
\* stored, the guard is dropped.
HeapInit(start, end) ==
    /\ hstate = "run"
    /\ Len(hstack) = 1 /\ HTop.pc = "idle"
    /\ ~heap_locked
    /\ IF heap.is_some
       THEN /\ hstate' = "panic"
            /\ UNCHANGED heap
       ELSE /\ heap' = [is_some |-> TRUE, b |-> init(new(MIN_BLOCK_SIZE), start, end)]
            /\ UNCHANGED hstate
    /\ UNCHANGED <<heap_locked, hdr, hptrs, hstack, hlast, notHeap>>

\* GlobalAlloc::alloc(layout) is called, by the ordinary code with any of
\* the layouts, by a handler with one of HandlerLayouts.
HCallAlloc(size, align) ==
    /\ hstate = "run"
    /\ HTop.pc = "idle"
    /\ Len(hstack) > 1 => <<size, align>> \in HandlerLayouts
    /\ Cardinality(hptrs) < HeapMaxLive
    /\ hstack' = HSetTop([pc |-> "lock",
                          op |-> [NoOp EXCEPT !.kind = "alloc", !.size = size,
                                              !.align = align]])
    /\ UNCHANGED <<heap, heap_locked, hdr, hptrs, hlast, hstate, notHeap>>

\* GlobalAlloc::dealloc(ptr, layout) is called with a pointer that alloc
\* returned.
HCallDealloc(p) ==
    /\ hstate = "run"
    /\ HTop.pc = "idle"
    /\ p \in hptrs
    /\ hptrs' = hptrs \ {p}
    /\ hstack' = HSetTop([pc |-> "lock",
                          op |-> [NoOp EXCEPT !.kind = "dealloc", !.ptr = p.ptr,
                                              !.base = p.base, !.order = p.order,
                                              !.align = p.align]])
    /\ UNCHANGED <<heap, heap_locked, hdr, hlast, hstate, notHeap>>

\* The new sizes handed to realloc.
ReallocSizes == {40}

\* GlobalAlloc::realloc(ptr, old_layout, new_size) is called with a pointer
\* that alloc returned, by the ordinary code of the core: it first calls
\* self.alloc with the new size and the old alignment.
HCallRealloc(p, new_size) ==
    /\ hstate = "run"
    /\ Len(hstack) = 1
    /\ HTop.pc = "idle"
    /\ p \in hptrs
    /\ hptrs' = hptrs \ {p}
    /\ hstack' = HSetTop([pc |-> "lock",
                          op |-> [NoOp EXCEPT !.kind = "realloc", !.size = new_size,
                                              !.ptr = p.ptr, !.base = p.base,
                                              !.order = p.order, !.align = p.align,
                                              !.osize = p.size, !.tag = p.tag]])
    /\ UNCHANGED <<heap, heap_locked, hdr, hlast, hstate, notHeap>>

\* self.inner.lock(): one turn of the loop of SpinLock::lock.
HLock ==
    /\ hstate = "run"
    /\ HTop.pc = "lock"
    /\ LET r == compare_exchange(heap_locked, FALSE, TRUE)
       IN  /\ heap_locked' = r.val
           /\ hstack' = HSetTop([HTop EXCEPT !.pc = IF r.ok THEN "crit" ELSE "lock"])
    /\ UNCHANGED <<heap, hdr, hptrs, hlast, hstate, notHeap>>

\* Mutant: a failed allocation is returned to the caller as a null pointer.
HCritAlloc_null ==
    /\ hstate = "run"
    /\ HTop.pc = "crit"
    /\ HTop.op.kind \in {"alloc", "realloc"}
    /\ LET r == alloc(heap.b, hdr, HTop.op.size, HTop.op.align)
       IN  IF ~heap.is_some \/ (r.res = NONE /\ ~r.hung)
           THEN /\ hstack' = HSetTop([HTop EXCEPT !.pc = "drop", !.op.ret = NULL])
                /\ UNCHANGED <<heap, hdr, hptrs, hlast, hstate>>
           ELSE /\ ~r.hung
                /\ heap' = [heap EXCEPT !.b = r.ba]
                /\ hdr' = r.hdr
                /\ hptrs' = IF HTop.op.kind = "alloc"
                            THEN hptrs \cup {[ptr |-> r.res, base |-> r.base,
                                              order |-> r.order, align |-> HTop.op.align,
                                              size |-> HTop.op.size, tag |-> r.res]}
                            ELSE hptrs
                /\ hlast' = [NoCall EXCEPT !.op = "alloc", !.ptr = r.res, !.base = r.base,
                                           !.order = r.order, !.align = HTop.op.align,
                                           !.size = HTop.op.size]
                /\ hstack' = HSetTop([HTop EXCEPT !.pc = "drop", !.op.ret = r.res,
                                                  !.op.nbase = r.base, !.op.norder = r.order,
                                                  !.op.ctag = r.res])
                /\ UNCHANGED hstate
    /\ UNCHANGED <<heap_locked, notHeap>>

\* The body of alloc under the guard, called by the user or by realloc:
\* "heap not initialized" and the alloc_error_handler are panics; otherwise
\* the pointer of BuddyAllocator::alloc is returned.  A call whose search
\* of the order does not end does not go on.
HCritAlloc ==
    /\ hstate = "run"
    /\ HTop.pc = "crit"
    /\ HTop.op.kind \in {"alloc", "realloc"}
    /\ LET r == alloc(heap.b, hdr, HTop.op.size, HTop.op.align)
       IN  IF ~heap.is_some \/ (r.res = NONE /\ ~r.hung)
           THEN /\ hstate' = "panic"
                /\ UNCHANGED <<heap, hdr, hptrs, hstack, hlast>>
           ELSE /\ ~r.hung
                /\ heap' = [heap EXCEPT !.b = r.ba]
                /\ hdr' = r.hdr
                /\ hptrs' = IF HTop.op.kind = "alloc"
                            THEN hptrs \cup {[ptr |-> r.res, base |-> r.base,
                                              order |-> r.order, align |-> HTop.op.align,
                                              size |-> HTop.op.size, tag |-> r.res]}
                            ELSE hptrs
                /\ hlast' = [NoCall EXCEPT !.op = "alloc", !.ptr = r.res, !.base = r.base,
                                           !.order = r.order, !.align = HTop.op.align,
                                           !.size = HTop.op.size]
                /\ hstack' = HSetTop([HTop EXCEPT !.pc = "drop", !.op.ret = r.res,
                                                  !.op.nbase = r.base, !.op.norder = r.order,
                                                  !.op.ctag = r.res])
                /\ UNCHANGED hstate
    /\ UNCHANGED <<heap_locked, notHeap>>

\* The body of dealloc under the guard.
HCritDealloc(garbage) ==
    /\ hstate = "run"
    /\ HTop.pc = "crit"
    /\ HTop.op.kind = "dealloc"
    /\ IF heap.is_some
       THEN LET r == free(heap.b, hdr, HTop.op.ptr, garbage)
            IN  /\ ~r.hung
                /\ heap' = [heap EXCEPT !.b = r.ba]
                /\ hdr' = r.hdr
                /\ hlast' = [NoCall EXCEPT !.op = "free", !.ptr = HTop.op.ptr,
                                           !.faddr = r.faddr, !.forder = r.forder,
                                           !.base = HTop.op.base, !.order = HTop.op.order,
                                           !.align = HTop.op.align]
                /\ hstate' = IF r.faddr = HTop.op.base /\ r.forder = HTop.op.order
                             THEN "run" ELSE "corrupt"
       ELSE UNCHANGED <<heap, hdr, hlast, hstate>>
    /\ hstack' = HSetTop([HTop EXCEPT !.pc = "drop"])
    /\ UNCHANGED <<heap_locked, hptrs, notHeap>>

Min2(x, y) == IF x < y THEN x ELSE y

\* SpinLockGuard::drop at the end of alloc or dealloc.  realloc, when its
\* call of alloc has returned a pointer that is not null, goes on with
\* copy_nonoverlapping(ptr, new_ptr, min(old_layout.size(), new_size)),
\* after which the new block holds what the old one held (ctag), and with
\* self.dealloc(ptr, old_layout); at the end of that call it returns the
\* new pointer, which its caller owns from then on.  With a null pointer
\* it returns null.
HDrop ==
    /\ hstate = "run"
    /\ HTop.pc = "drop"
    /\ heap_locked' = FALSE
    /\ hstack' = HSetTop(IF HTop.op.kind = "realloc" /\ HTop.op.ret # NULL
                         THEN [pc |-> "lock",
                               op |-> [HTop.op EXCEPT
                                         !.kind = "dealloc",
                                         !.copied = Min2(HTop.op.osize, HTop.op.size),
                                         !.ctag = HTop.op.tag]]
                         ELSE [pc |-> "idle", op |-> NoOp])
    /\ hptrs' = IF HTop.op.kind = "dealloc" /\ HTop.op.ret # NULL
                THEN hptrs \cup {[ptr |-> HTop.op.ret, base |-> HTop.op.nbase,
                                  order |-> HTop.op.norder, align |-> HTop.op.align,
                                  size |-> HTop.op.size, tag |-> HTop.op.ctag]}
                ELSE hptrs
    /\ UNCHANGED <<heap, hdr, hlast, hstate, notHeap>>

\* An IRQ is taken: SpinLock leaves the interrupts of the core enabled, so
\* a handler can preempt the running context anywhere.
HIrqTaken ==
    /\ hstate = "run"
    /\ Len(hstack) <= MaxNest
    /\ hstack' = Append(hstack, [pc |-> "idle", op |-> NoOp])
    /\ UNCHANGED <<heap, heap_locked, hdr, hptrs, hlast, hstate, notHeap>>

\* The handler returns to the code it interrupted.
HIrqReturn ==
    /\ hstate = "run"
    /\ Len(hstack) > 1
    /\ HTop.pc = "idle"
    /\ hstack' = SubSeq(hstack, 1, Len(hstack) - 1)
    /\ UNCHANGED <<heap, heap_locked, hdr, hptrs, hlast, hstate, notHeap>>

NextHeap ==
    \/ \E r \in HeapRegions : HeapInit(r[1], r[2])
    \/ \E l \in Layouts : HCallAlloc(l[1], l[2])
    \/ \E p \in hptrs : HCallDealloc(p)
    \/ \E p \in hptrs : \E n \in ReallocSizes : HCallRealloc(p, n)
    \/ HLock
    \/ HCritAlloc
    \/ \E g \in GarbageBytes : HCritDealloc(g)
    \/ HDrop
    \/ HIrqTaken
    \/ HIrqReturn

SpecHeap == InitHeap /\ [][NextHeap]_vars

\* C4: a handler that preempts ordinary code and calls the allocator
\* completes its call.  A handler in the loop of lock() leaves it only
\* when the flag is clear, and the code it interrupted does not run before
\* the handler returns: the flag is not held by an interrupted context.
C4_HandlerCallCompletes ==
    ( /\ Len(hstack) > 1
      /\ HTop.pc = "lock" )
    => ~ \E i \in 1 .. (Len(hstack) - 1) : hstack[i].pc \in {"crit", "drop"}

\* C7: for every layout for which alloc returned p, free(p) reads the
\* order that alloc wrote and passes the base address of the block that
\* alloc obtained, with that order, to free_block.
C7_HeapRoundTrip ==
    hlast.op = "free" => hlast.faddr = hlast.base /\ hlast.forder = hlast.order

\* C18: a call of alloc or realloc of the HeapAllocator that gets past its
\* critical section, to return to its caller, returns a pointer that is
\* not null, on an initialised heap; a call that finds the heap not
\* initialised or gets no value from BuddyAllocator::alloc stops in the
\* panic.
C18_HeapExhaustionIsFatal ==
    /\ \A i \in 1 .. Len(hstack) :
           (hstack[i].op.kind \in {"alloc", "realloc"} /\ hstack[i].pc = "drop")
               => (hstack[i].op.ret # NULL /\ heap.is_some)
    /\ \A i \in 1 .. Len(hstack) :
           (hstack[i].op.kind = "dealloc" /\ hstack[i].op.ret # NULL) => heap.is_some
    /\ \A p \in hptrs : p.ptr # NULL

\* realloc has found the initialised heap exhausted and the core has
\* stopped in the panic of the alloc_error_handler.
C18_Witness ==
    /\ hstate = "panic"
    /\ heap.is_some
    /\ HTop.pc = "crit"
    /\ HTop.op.kind = "realloc"
    /\ alloc(heap.b, hdr, HTop.op.size, HTop.op.align).res = NONE

\* The block (base, order) of the heap lies in a block of a free list.
OnFreeLists(base, order) ==
    \E f \in FreeBlocks(heap.b) :
        /\ f[1] <= base
        /\ base + BlockSize(heap.b, order) <= f[1] + BlockSize(heap.b, f[2])

\* The calls of realloc that have allocated, copied and freed, and have
\* only the drop of the guard and the return left.
ReallocsDone ==
    { i \in 1 .. Len(hstack) :
        /\ hstack[i].op.kind = "dealloc" /\ hstack[i].op.ret # NULL
        /\ hstack[i].pc = "drop" }

\* C29: when realloc has allocated, copied and freed, the pointer it
\* returns is in a block other than the old one, the first
\* min(old_size, new_size) bytes of the new block are those of the old
\* one, the old block is on the free lists and the new block is not.
C29_ReallocMoves ==
    \A i \in ReallocsDone :
        LET x == hstack[i].op
        IN  /\ x.nbase # x.base
            /\ x.copied = Min2(x.osize, x.size) /\ x.ctag = x.tag
            /\ OnFreeLists(x.base, x.order)
            /\ ~OnFreeLists(x.nbase, x.norder)

\* The least multiple of the alignment that holds the BlockHeader.
HeaderRoom(align) ==
    LET a == IF align > ALIGN_OF_HEADER THEN align ELSE ALIGN_OF_HEADER
    IN  CHOOSE n \in 1 .. (SIZE_OF_HEADER + a) :
            /\ n % a = 0 /\ n >= SIZE_OF_HEADER
            /\ \A k \in 1 .. (n - 1) : ~(k % a = 0 /\ k >= SIZE_OF_HEADER)

PageRegions == { <<64, 128>>, <<50, 110>> }

\* The address of the static l1_page_table of the kernel image, below the
\* free memory that the page allocator manages.
KernelL1Addrs == {32}

\* ORDER of the PageBlock<ORDER> handles.
PageBlockOrders == {1, 2}

\* The handle types with the order their allocation entry point and their
\* drop use.
HandleTypes ==
    { [kind |-> "Page", alloc_order |-> 0, free_order |-> 0],
      [kind |-> "L1Table", alloc_order |-> 2, free_order |-> 2],
      [kind |-> "L2Table", alloc_order |-> 0, free_order |-> 0] }
    \cup { [kind |-> "PageBlock", alloc_order |-> o, free_order |-> o] : o \in PageBlockOrders }

InitPage ==
    /\ ba \in { new(m) : m \in MinBlockSizes }
    /\ phase = "new"
    /\ region = <<0, 0>>
    /\ live = {}
    /\ last = [op |-> "new", order |-> 0, addr |-> NONE, imm |-> FALSE,
               own |-> FALSE, aorder |-> NONE, again |-> FALSE]
    /\ handles = {}
    /\ SpinIdle /\ IrqIdle /\ RwIdle /\ HeapIdle /\ ScenIdle /\ SmpIdle /\ TblIdle

\* PageAllocator::init: a second call is a panic.
PInit(start, end) ==
    /\ phase \in {"new", "ready"}
    /\ IF phase = "ready"
       THEN /\ phase' = "panic"
            /\ UNCHANGED <<ba, region, last>>
       ELSE /\ phase' = "ready"
            /\ ba' = init(ba, start, end)
            /\ region' = <<start, end>>
            /\ last' = [op |-> "init", order |-> 0, addr |-> NONE, imm |-> FALSE,
                        own |-> FALSE, aorder |-> NONE, again |-> FALSE]
    /\ UNCHANGED <<live, handles, notBuddy>>

\* alloc_page, alloc_block::<ORDER>, alloc_l1_table, alloc_l2_table:
\* with_allocator(|alloc| alloc.alloc_pages(order).map(Handle::new)).
PAlloc(ty) ==
    /\ phase = "ready"
    /\ Cardinality(handles) < MaxLive
    /\ LET r == alloc_block_order(ba, ty.alloc_order)
       IN  /\ ba' = r.ba
           /\ last' = [op |-> "alloc", order |-> ty.alloc_order, addr |-> r.res,
                       imm |-> FALSE,
               own |-> FALSE, aorder |-> NONE, again |-> FALSE]
           /\ IF r.res = NONE
              THEN UNCHANGED <<handles, live>>
              ELSE /\ handles' = handles \cup {[kind |-> ty.kind, addr |-> r.res,
                                                order |-> ty.free_order,
                                                freed |-> FALSE]}
                   /\ live' = live \cup {<<r.res, ty.alloc_order>>}
    /\ UNCHANGED <<phase, region, notBuddy>>

\* The order that the block at addr was allocated with, NONE when no
\* allocation at addr is alive.
AllocatedOrder(addr) ==
    IF \E l \in live : l[1] = addr
    THEN (CHOOSE l \in live : l[1] = addr)[2]
    ELSE NONE

\* Mutant: the flag is looked at after free_block has run.
HandleDrop_late(h) ==
    /\ LET r == free_block(ba, h.addr, h.order)
       IN  /\ ~r.hung
           /\ ba' = r.ba
    /\ last' = [op |-> IF h.freed THEN "double" ELSE "drop",
                order |-> h.order, addr |-> h.addr, imm |-> FALSE,
                own |-> <<h.addr, h.order>> \in live,
                aorder |-> AllocatedOrder(h.addr),
                again |-> last.op = "drop" /\ last.addr = h.addr /\ last.order = h.order]
    /\ live' = live \ {<<h.addr, h.order>>}
    /\ phase' = IF h.freed THEN "panic"
                ELSE IF <<h.addr, h.order>> \in live THEN phase ELSE "corrupt"

\* Drop of a handle: flag.mark_freed(), which panics with "double free
\* detected" when the flag of this handle is set already (last.op
\* "double"), then lock and free_block(addr, order).  Once a block that is
\* not a live allocation is on a free list the free lists share memory
\* with its owner: phase "corrupt".
HandleDrop(h) ==
    IF h.freed
    THEN /\ phase' = "panic"
         /\ last' = [op |-> "double", order |-> h.order, addr |-> h.addr, imm |-> FALSE,
                     own |-> FALSE, aorder |-> NONE, again |-> TRUE]
         /\ UNCHANGED <<ba, live>>
    ELSE /\ LET r == free_block(ba, h.addr, h.order)
            IN  /\ ~r.hung
                /\ ba' = r.ba
         /\ last' = [op |-> "drop", order |-> h.order, addr |-> h.addr, imm |-> FALSE,
                     own |-> <<h.addr, h.order>> \in live,
                     aorder |-> AllocatedOrder(h.addr),
                     again |-> last.op = "drop" /\ last.addr = h.addr
                                  /\ last.order = h.order]
         /\ live' = live \ {<<h.addr, h.order>>}
         /\ phase' = IF <<h.addr, h.order>> \in live THEN phase ELSE "corrupt"

PDrop(h) ==
    /\ phase = "ready"
    /\ h \in handles
    /\ HandleDrop(h)
    /\ handles' = handles \ {h}
    /\ UNCHANGED <<region, notBuddy>>

\* core::ptr::drop_in_place(&mut page) (or ManuallyDrop::drop) on a Page:
\* the drop of the handle runs and the handle stays where it is, its flag
\* set, so that a second release can be attempted through the same
\* instance.  The drops of the other handle types have the same body.
PDropInPlace(h) ==
    /\ phase = "ready"
    /\ h \in handles
    /\ h.kind = "Page"
    /\ h.freed \/ Cardinality({g \in handles : g.freed}) < MaxInPlace
    /\ HandleDrop(h)
    /\ handles' = (handles \ {h}) \cup {[h EXCEPT !.freed = TRUE]}
    /\ UNCHANGED <<region, notBuddy>>

\* with_kernel_l1(f): KERNEL_L1_LOCK is taken, get_kernel_l1_table() builds
\* an L1Table on the static table with L1Table::new, its flag clear, f runs
\* on it, and the temporary L1Table is dropped at the end of the
\* statement.  The call can be made again after a first one: the static
\* table lies outside the managed range, so free_block only pushes it.
PWithKernelL1(table) ==
    /\ phase \in {"ready", "corrupt"}
    /\ HandleDrop([kind |-> "L1Table", addr |-> table, order |-> 2, freed |-> FALSE])
    /\ UNCHANGED <<region, handles, notBuddy>>

NextPage ==
    \/ \E r \in PageRegions : PInit(r[1], r[2])
    \/ \E ty \in HandleTypes : PAlloc(ty)
    \/ \E h \in handles : PDrop(h)
    \/ \E h \in handles : PDropInPlace(h)
    \/ \E t \in KernelL1Addrs : PWithKernelL1(t)

SpecPage == InitPage /\ [][NextPage]_vars

\* C8: every address that the drop of a handle passes to free_block was
\* returned by an allocation entry point at that order and has not been
\* released since.
C8_ReleaseMatchesAllocation ==
    last.op = "drop" => last.own

\* C19: every handle alive releases at the order its block was allocated
\* with, and every free_block call made by the drop of a handle is made at
\* the order that the block was allocated with.
C19_DropAtAllocationOrder ==
    /\ \A h \in handles : ~h.freed => h.order = AllocatedOrder(h.addr)
    /\ last.op = "drop" => last.order = last.aorder

\* C21: a drop that runs on a handle whose drop has run already (debug
\* build) ends in the panic of mark_freed with the allocator as it was:
\* free lists, links and live allocations are unchanged.
C21_SecondDropBeforeAllocator ==
    [][last'.op = "double" => (phase' = "panic" /\ ba' = ba /\ live' = live)]_vars

\* A second drop through the same handle has ended in the panic while
\* other handles are alive.
C21_Witness ==
    /\ phase = "panic"
    /\ last.op = "double"
    /\ \E h \in handles : h.freed /\ h.addr = last.addr
    /\ \E h \in handles : ~h.freed

\* C20: the release of an address and order that the call before it
\* released, nothing having allocated the block in between, ends in the
\* "double free detected" panic.
C20_DoubleReleaseAborts ==
    (last.op = "drop" /\ last.again) => phase = "panic"

(***************************************************************************)
(* Scenarios of the block-level API: a BuddyAllocator is built with       *)
(* new(min_block_size), init is called once, and a fixed sequence of      *)
(* alloc_block_order and free_block calls, a script, is made on it; every *)
(* free_block releases the block that an earlier call of the script       *)
(* returned, at the order of that call.                                   *)
(***************************************************************************)
ScenarioBlockSizes == {4, 4096}

\* The ranges handed to init for min_block_size m: 16 blocks long at
\* starts of every alignment, one block of the largest order long, and
\* the ranges [0x10000, 0x30000) and [0x10000, 0x18000).
ScenarioRegions(m) ==
    { <<s, s + 16 * m>> : s \in {m, m + 1, 2 * m, 4 * m, 8 * m, 12 * m, 16 * m, 32 * m} }
    \cup { <<s, s + m * (2 ^ MAX_ORDER)>> :
               s \in {m * (2 ^ MAX_ORDER), m * (2 ^ (MAX_ORDER - 1)), 3 * m * (2 ^ MAX_ORDER)} }
    \cup (IF m = 4096 THEN { <<65536, 196608>>, <<65536, 98304>> } ELSE {})

\* The steps of a script.
A(order) == [op |-> "alloc", order |-> order, of |-> 0]
F(of, order) == [op |-> "free", order |-> order, of |-> of]

\* The orders in which four blocks can be freed.
Perms4 == { p \in [1 .. 4 -> 1 .. 4] : \A i, j \in 1 .. 4 : p[i] = p[j] => i = j }

MergeScript(p) ==
    << A(0), A(0), A(0), A(0), F(p[1], 0), F(p[2], 0), F(p[3], 0), F(p[4], 0), A(2) >>

ExhaustScript == << A(MAX_ORDER), A(MAX_ORDER) >>

ConcreteScripts ==
    { << A(3), A(0), F(1, 3), A(0), A(0), F(4, 0), F(5, 0), A(1) >>,
      << A(3), A(0), F(1, 3), A(0), A(0), F(5, 0), F(4, 0), A(1) >> }

Scripts == { MergeScript(p) : p \in Perms4 } \cup {ExhaustScript} \cup ConcreteScripts

\* The step that call number i made.
Made(i) == [op |-> calls[i].op, order |-> calls[i].order, of |-> calls[i].of]

\* Some script goes on with `step` after the calls made so far.
Continues(step) ==
    \E s \in Scripts :
        /\ Len(s) > Len(calls)
        /\ s[Len(calls) + 1] = step
        /\ \A i \in 1 .. Len(calls) : Made(i) = s[i]

InitScenario ==
    /\ sba \in { new(m) : m \in ScenarioBlockSizes }
    /\ sregion = <<0, 0>>
    /\ calls = <<>>
    /\ BuddyIdle /\ SpinIdle /\ IrqIdle /\ RwIdle /\ HeapIdle /\ SmpIdle /\ TblIdle

SInit(start_addr, end_addr) ==
    /\ sregion = <<0, 0>>
    /\ sba' = init(sba, start_addr, end_addr)
    /\ sregion' = <<start_addr, end_addr>>
    /\ UNCHANGED <<calls, notScen>>

SAlloc(order) ==
    /\ sregion # <<0, 0>>
    /\ Continues(A(order))
    /\ LET r == alloc_block_order(sba, order)
       IN  /\ sba' = r.ba
           /\ calls' = Append(calls, [op |-> "alloc", order |-> order, of |-> 0,
                                      addr |-> NONE, res |-> r.res])
    /\ UNCHANGED <<sregion, notScen>>

SFree(of) ==
    /\ sregion # <<0, 0>>
    /\ of \in 1 .. Len(calls)
    /\ calls[of].op = "alloc"
    /\ calls[of].res # NONE
    /\ Continues(F(of, calls[of].order))
    /\ LET r == free_block(sba, calls[of].res, calls[of].order)
       IN  /\ ~r.hung
           /\ sba' = r.ba
    /\ calls' = Append(calls, [op |-> "free", order |-> calls[of].order, of |-> of,
                               addr |-> calls[of].res, res |-> NONE])
    /\ UNCHANGED <<sregion, notScen>>

NextScenario ==
    \/ \E r \in ScenarioRegions(sba.min_block_size) : SInit(r[1], r[2])
    \/ \E k \in Orders : SAlloc(k)
    \/ \E i \in 1 .. Len(calls) : SFree(i)

SpecScenario == InitScenario /\ [][NextScenario]_vars

\* The length of the range handed to init.
RegionLen == sregion[2] - sregion[1]

\* The calls made begin as a merge script: four alloc_block_order(0).
MergeRun == Len(calls) >= 4 /\ \A i \in 1 .. 4 : Made(i) = A(0)

\* The addresses that the first four calls returned.
Four == { calls[i].res : i \in 1 .. 4 }

Lowest(S) == CHOOSE a \in S : \A c \in S : a <= c

\* The four blocks are distinct blocks of one order-2 parent, and once all
\* four are freed alloc_block_order(2) returns the lowest of them.
MergeConverges ==
    /\ NONE \notin Four
    /\ Cardinality(Four) = 4
    /\ \A a, c \in Four :
           BitAnd(a, BitNot(4 * sba.min_block_size - 1))
               = BitAnd(c, BitNot(4 * sba.min_block_size - 1))
    /\ Len(calls) = 9 => calls[9].res = Lowest(Four)

\* C13 as stated: for every range of exactly 16 * min_block_size handed to
\* init, four alloc_block_order(0) return four distinct addresses of one
\* order-2 parent, and after freeing the four in any order
\* alloc_block_order(2) returns the lowest of them.
C13_MergeConvergence ==
    (RegionLen = 16 * sba.min_block_size /\ MergeRun) => MergeConverges

\* C13 amended: the same for the ranges of exactly 16 * min_block_size
\* whose start is a nonzero multiple of 4 * min_block_size, the size of an
\* order-2 block.
C13_MergeConvergenceAligned ==
    ( /\ RegionLen = 16 * sba.min_block_size
      /\ sregion[1] # 0
      /\ sregion[1] % (4 * sba.min_block_size) = 0
      /\ MergeRun )
    => MergeConverges

\* The merge script has run to its end on a range whose start is aligned
\* to an order-2 block and to nothing larger, the blocks being freed in
\* another order than they were allocated in.
C13_Witness ==
    /\ RegionLen = 16 * sba.min_block_size
    /\ sregion[1] % (8 * sba.min_block_size) = 4 * sba.min_block_size
    /\ MergeRun
    /\ Len(calls) = 9
    /\ calls[5].of = 3
    /\ calls[9].res = Lowest(Four)

\* The calls made begin as the exhaustion script.
ExhaustRun == Len(calls) >= 1 /\ Made(1) = A(MAX_ORDER)

Exhausts ==
    /\ calls[1].res # NONE
    /\ Len(calls) >= 2 => calls[2].res = NONE

\* C14 as stated: after init over a range of exactly
\* min_block_size << MAX_ORDER the first alloc_block_order(MAX_ORDER)
\* returns a block and the second returns no value.
C14_Exhaustion ==
    ( /\ RegionLen = sba.min_block_size * (2 ^ MAX_ORDER)
      /\ ExhaustRun /\ Len(calls) <= 2 )
    => Exhausts

\* C14 amended: the same for the ranges whose start is a nonzero multiple
\* of min_block_size << MAX_ORDER.
C14_ExhaustionAligned ==
    ( /\ RegionLen = sba.min_block_size * (2 ^ MAX_ORDER)
      /\ sregion[1] # 0
      /\ sregion[1] % (sba.min_block_size * (2 ^ MAX_ORDER)) = 0
      /\ ExhaustRun /\ Len(calls) <= 2 )
    => Exhausts

C14_Witness ==
    /\ RegionLen = sba.min_block_size * (2 ^ MAX_ORDER)
    /\ sregion[1] % (sba.min_block_size * (2 ^ MAX_ORDER)) = 0
    /\ ExhaustRun
    /\ Len(calls) = 2
    /\ calls[1].res = sregion[1]
    /\ calls[2].res = NONE

\* The calls made begin as the concrete scenario.
ConcreteRun == Len(calls) >= 1 /\ Made(1) = A(3)

\* What the calls of the concrete scenario return (no value for the
\* free_block calls): 0x10000, none, -, 0x10000, 0x11000, -, -, 0x10000;
\* the first free_block is free_block(0x10000, 3).
ConcreteExpected == << 65536, NONE, NONE, 65536, 69632, NONE, NONE, 65536 >>

ConcreteResults ==
    /\ \A i \in 1 .. Len(calls) : calls[i].res = ConcreteExpected[i]
    /\ Len(calls) >= 3 => calls[3].addr = 65536

\* C15 as stated: with min_block_size = 4096 and init over
\* [0x10000, 0x30000) the calls of the concrete scenario return 0x10000,
\* no value, 0x10000, 0x11000 and 0x10000.
C15_ConcreteScenario ==
    ( /\ sba.min_block_size = 4096
      /\ sregion = <<65536, 196608>>
      /\ ConcreteRun )
    => ConcreteResults

\* C15 amended: the same with init over [0x10000, 0x18000), a range of 8
\* blocks.
C15_ConcreteScenario8Blocks ==
    ( /\ sba.min_block_size = 4096
      /\ sregion = <<65536, 98304>>
      /\ ConcreteRun )
    => ConcreteResults

C15_Witness ==
    /\ sba.min_block_size = 4096
    /\ sregion = <<65536, 98304>>
    /\ ConcreteRun
    /\ Len(calls) = 8
    /\ calls[8].res = 65536
    /\ calls[6].of = 5


(***************************************************************************)
(* The two allocator instances and the cores.  The page allocator is the   *)
(* BuddyAllocator in BUDDY_STORAGE behind its SpinLock, reached through     *)
(* PageAllocator::get().alloc_*() and through the drop of the handles; the *)
(* heap is HEAP, reached through GlobalAlloc.  A call of a core is         *)
(*   "get"   PageAllocator::get(), the load of BUDDY_INITIALIZED           *)
(*   "lock"  SpinLock::lock of the instance                                *)
(*   "read"  the buddy operation reads the allocator                       *)
(*   "write" the buddy operation writes what it has computed               *)
(*   "drop"  the drop of the guard, and the return                         *)
(* The buddy operation is a sequence of loads and stores of the            *)
(* allocator's memory; it is split here into the loads and the stores.     *)
(***************************************************************************)
\* The ranges handed to PageAllocator::init and to init_heap, the page
\* size, the orders of alloc_page and alloc_block::<1>, and the layouts
\* <<size, align>> of the heap allocations.
CorePageSize == 4
CorePageRegions == { <<16, 32>> }
CoreHeapRegions == { <<32, 160>> }
CorePageOrders == {0, 1}
CoreLayouts == { <<1, 1>>, <<40, 8>> }

Insts == {"page", "heap"}

\* The allocator of an instance as the buddy code sees it.
Inst(i) ==
    IF i = "page" THEN [b |-> BUDDY_STORAGE.b, hdr |-> EmptyMem]
    ELSE [b |-> HEAP.b, hdr |-> HEAP.hdr]

\* The flag of the SpinLock of an instance.
LockFlag(i) == IF i = "page" THEN BUDDY_STORAGE.locked ELSE HEAP.locked

\* Mutant: one flag for both instances.
SetLocked_both(i, v) ==
    /\ BUDDY_STORAGE' = [BUDDY_STORAGE EXCEPT !.locked = v]
    /\ HEAP' = [HEAP EXCEPT !.locked = v]

\* A store to the flag of the SpinLock of an instance.
SetLocked(i, v) ==
    IF i = "page"
    THEN /\ BUDDY_STORAGE' = [BUDDY_STORAGE EXCEPT !.locked = v]
         /\ UNCHANGED HEAP
    ELSE /\ HEAP' = [HEAP EXCEPT !.locked = v]
         /\ UNCHANGED BUDDY_STORAGE

\* The buddy operation of the call x on the allocator s = [b, hdr]:
\* alloc_pages(order) and free_block(addr, order) on the page allocator,
\* alloc(layout), free(ptr) and the construction by init on the heap.
Apply(s, x) ==
    IF x.inst = "page" /\ x.kind = "alloc"
    THEN LET r == alloc_block_order(s.b, x.o)
         IN  [b |-> r.ba, hdr |-> s.hdr, hung |-> FALSE,
              res |-> IF r.res = NONE THEN NoBlk
                      ELSE [inst |-> "page", addr |-> r.res, order |-> x.o, ptr |-> r.res]]
    ELSE IF x.inst = "page"
    THEN LET r == free_block(s.b, x.blk.addr, x.blk.order)
         IN  [b |-> r.ba, hdr |-> s.hdr, hung |-> r.hung, res |-> NoBlk]
    ELSE IF x.kind = "alloc"
    THEN LET r == alloc(s.b, s.hdr, x.size, x.align)
         IN  [b |-> r.ba, hdr |-> r.hdr, hung |-> r.hung,
              res |-> IF r.res = NONE THEN NoBlk
                      ELSE [inst |-> "heap", addr |-> r.base, order |-> r.order,
                            ptr |-> r.res]]
    ELSE IF x.kind = "dealloc"
    THEN LET r == free(s.b, s.hdr, x.blk.ptr, 0)
         IN  [b |-> r.ba, hdr |-> r.hdr, hung |-> r.hung, res |-> NoBlk]
    ELSE [b |-> init(new(MIN_BLOCK_SIZE), x.reg[1], x.reg[2]), hdr |-> EmptyMem,
          hung |-> FALSE, res |-> NoBlk]

\* Both allocators initialised, as kernel_init leaves them before the
\* secondary cores run.
InitCores ==
    /\ BUDDY_INITIALIZED = TRUE
    /\ \E r \in CorePageRegions :
          BUDDY_STORAGE = [written |-> TRUE, locked |-> FALSE,
                           b |-> init(new(CorePageSize), r[1], r[2])]
    /\ \E r \in CoreHeapRegions :
          HEAP = [locked |-> FALSE, is_some |-> TRUE,
                  b |-> init(new(MIN_BLOCK_SIZE), r[1], r[2]), hdr |-> EmptyMem]
    /\ cpu = [c \in Cores |-> IdleCtx]
    /\ owned = [c \in Cores |-> {}]
    /\ lin = [page |-> [b |-> BUDDY_STORAGE.b, hdr |-> EmptyMem],
              heap |-> [b |-> HEAP.b, hdr |-> HEAP.hdr]]
    /\ cstate = "run"
    /\ BuddyIdle /\ SpinIdle /\ IrqIdle /\ RwIdle /\ HeapIdle /\ ScenIdle /\ TblIdle

\* A core panics.
CorePanic(c) ==
    /\ cstate' = "panic"
    /\ cpu' = [cpu EXCEPT ![c].pc = "panicked"]

\* PageAllocator::get().alloc_page() or .alloc_block::<1>() is called.
CCallPageAlloc(c, order) ==
    /\ cstate = "run"
    /\ cpu[c].pc = "idle"
    /\ Cardinality(owned[c]) < CoreMaxOwn
    /\ cpu' = [cpu EXCEPT ![c] = [IdleCtx EXCEPT !.pc = "get", !.inst = "page",
                                                 !.kind = "alloc", !.o = order]]
    /\ UNCHANGED <<BUDDY_INITIALIZED, BUDDY_STORAGE, HEAP, owned, lin, cstate, notSmp>>

\* PageAllocator::get(): a panic when BUDDY_INITIALIZED is not set.
CGet(c) ==
    /\ cstate = "run"
    /\ cpu[c].pc = "get"
    /\ IF BUDDY_INITIALIZED
       THEN /\ cpu' = [cpu EXCEPT ![c].pc = "lock"]
            /\ UNCHANGED cstate
       ELSE CorePanic(c)
    /\ UNCHANGED <<BUDDY_INITIALIZED, BUDDY_STORAGE, HEAP, owned, lin, notSmp>>

\* A Page or a PageBlock goes out of scope: its drop runs.
CCallPageDrop(c, blk) ==
    /\ cstate = "run"
    /\ cpu[c].pc = "idle"
    /\ blk \in owned[c] /\ blk.inst = "page"
    /\ owned' = [owned EXCEPT ![c] = @ \ {blk}]
    /\ cpu' = [cpu EXCEPT ![c] = [IdleCtx EXCEPT !.pc = "lock", !.inst = "page",
                                                 !.kind = "free", !.blk = blk]]
    /\ UNCHANGED <<BUDDY_INITIALIZED, BUDDY_STORAGE, HEAP, lin, cstate, notSmp>>

\* GlobalAlloc::alloc(layout) is called.
CCallHeapAlloc(c, size, align) ==
    /\ cstate = "run"
    /\ cpu[c].pc = "idle"
    /\ Cardinality(owned[c]) < CoreMaxOwn
    /\ cpu' = [cpu EXCEPT ![c] = [IdleCtx EXCEPT !.pc = "lock", !.inst = "heap",
                                                 !.kind = "alloc", !.size = size,
                                                 !.align = align]]
    /\ UNCHANGED <<BUDDY_INITIALIZED, BUDDY_STORAGE, HEAP, owned, lin, cstate, notSmp>>

\* GlobalAlloc::dealloc(ptr, layout) is called on a pointer that alloc
\* returned.
CCallHeapDealloc(c, blk) ==
    /\ cstate = "run"
    /\ cpu[c].pc = "idle"
    /\ blk \in owned[c] /\ blk.inst = "heap"
    /\ owned' = [owned EXCEPT ![c] = @ \ {blk}]
    /\ cpu' = [cpu EXCEPT ![c] = [IdleCtx EXCEPT !.pc = "lock", !.inst = "heap",
                                                 !.kind = "dealloc", !.blk = blk]]
    /\ UNCHANGED <<BUDDY_INITIALIZED, BUDDY_STORAGE, HEAP, lin, cstate, notSmp>>

\* One turn of the loop of SpinLock::lock on the lock of the instance.  The
\* lock in a BUDDY_STORAGE that nothing was written to is uninitialised
\* memory: the core crashes, or goes on with the zeroes of the static.
CLock(c) ==
    /\ cstate = "run"
    /\ cpu[c].pc = "lock"
    /\ LET i == cpu[c].inst
           r == compare_exchange(LockFlag(i), FALSE, TRUE)
       IN  \/ /\ SetLocked(i, r.val)
              /\ cpu' = [cpu EXCEPT ![c].pc = IF r.ok THEN "read" ELSE "lock",
                                    ![c].guards = IF r.ok THEN @ \cup {i} ELSE @]
              /\ UNCHANGED cstate
           \/ /\ i = "page" /\ ~BUDDY_STORAGE.written
              /\ cstate' = "ub"
              /\ UNCHANGED <<BUDDY_STORAGE, HEAP, cpu>>
    /\ UNCHANGED <<BUDDY_INITIALIZED, owned, lin, notSmp>>

\* The loads of the operation.  On the heap they follow guard.as_mut():
\* alloc expects Some, dealloc does nothing on None, init panics on Some.
CRead(c) ==
    /\ cstate = "run"
    /\ cpu[c].pc = "read"
    /\ LET x == cpu[c]
       IN  IF x.inst = "heap" /\ ((x.kind = "alloc" /\ ~HEAP.is_some)
                                    \/ (x.kind = "init" /\ HEAP.is_some))
           THEN CorePanic(c)
           ELSE IF x.inst = "heap" /\ x.kind = "dealloc" /\ ~HEAP.is_some
           THEN /\ cpu' = [cpu EXCEPT ![c].pc = "drop"]
                /\ UNCHANGED cstate
           ELSE /\ cpu' = [cpu EXCEPT ![c].pc = "write", ![c].snap = Inst(x.inst)]
                /\ UNCHANGED cstate
    /\ UNCHANGED <<BUDDY_INITIALIZED, BUDDY_STORAGE, HEAP, owned, lin, notSmp>>

\* The stores of the operation, on what it loaded, and its result; a heap
\* alloc that finds no block ends in alloc_error_handler.
CWrite(c) ==
    /\ cstate = "run"
    /\ cpu[c].pc = "write"
    /\ LET x == cpu[c]
           r == Apply(x.snap, x)
           l == IF lin[x.inst] = x.snap THEN r
                ELSE [b |-> lin[x.inst].b, hdr |-> lin[x.inst].hdr, hung |-> FALSE,
                      res |-> [NoBlk EXCEPT !.inst = "diverged"]]
       IN  /\ ~r.hung
           /\ IF x.inst = "page"
              THEN /\ BUDDY_STORAGE' = IF r.b = x.snap.b THEN BUDDY_STORAGE
                                       ELSE [BUDDY_STORAGE EXCEPT !.b = r.b]
                   /\ UNCHANGED HEAP
              ELSE /\ HEAP' = IF x.kind = "init"
                              THEN [HEAP EXCEPT !.is_some = TRUE, !.b = r.b, !.hdr = r.hdr]
                              ELSE IF r.b = x.snap.b /\ r.hdr = x.snap.hdr THEN HEAP
                              ELSE [HEAP EXCEPT !.b = r.b, !.hdr = r.hdr]
                   /\ UNCHANGED BUDDY_STORAGE
           /\ lin' = [lin EXCEPT ![x.inst] = [b |-> l.b, hdr |-> l.hdr]]
           /\ IF x.inst = "heap" /\ x.kind = "alloc" /\ r.res = NoBlk
              THEN /\ cstate' = "panic"
                   /\ cpu' = [cpu EXCEPT ![c].pc = "panicked", ![c].snap = NoSnap]
              ELSE /\ cpu' = [cpu EXCEPT ![c].pc = "drop", ![c].snap = NoSnap,
                                         ![c].res = r.res, ![c].lres = l.res]
                   /\ UNCHANGED cstate
    /\ UNCHANGED <<BUDDY_INITIALIZED, owned, notSmp>>

\* SpinLockGuard::drop, and the return of the call with its result.
CDrop(c) ==
    /\ cstate = "run"
    /\ cpu[c].pc = "drop"
    /\ SetLocked(cpu[c].inst, FALSE)
    /\ owned' = [owned EXCEPT ![c] = IF cpu[c].res = NoBlk THEN @ ELSE @ \cup {cpu[c].res}]
    /\ cpu' = [cpu EXCEPT ![c] = IdleCtx]
    /\ UNCHANGED <<BUDDY_INITIALIZED, lin, cstate, notSmp>>

NextCores ==
    \/ \E c \in Cores : \E o \in CorePageOrders : CCallPageAlloc(c, o)
    \/ \E c \in Cores : CGet(c)
    \/ \E c \in Cores : \E blk \in owned[c] : CCallPageDrop(c, blk)
    \/ \E c \in Cores : \E y \in CoreLayouts : CCallHeapAlloc(c, y[1], y[2])
    \/ \E c \in Cores : \E blk \in owned[c] : CCallHeapDealloc(c, blk)
    \/ \E c \in Cores : CLock(c)
    \/ \E c \in Cores : CRead(c)
    \/ \E c \in Cores : CWrite(c)
    \/ \E c \in Cores : CDrop(c)

SpecCores == InitCores /\ [][NextCores]_vars

\* The blocks that a core owns or is about to be handed.
Blocks(c) ==
    owned[c] \cup (IF cpu[c].pc = "drop" /\ cpu[c].res # NoBlk THEN {cpu[c].res} ELSE {})

\* The bytes of a block of an instance.
BytesOf(blk) ==
    blk.addr .. (blk.addr + Inst(blk.inst).b.min_block_size * (2 ^ blk.order) - 1)

\* The cores inside the operation of instance i.
Inside(i) == { c \in Cores : cpu[c].inst = i /\ cpu[c].pc \in {"read", "write", "drop"} }

StepInst(c) == IF cpu[c].inst # "none" THEN cpu[c].inst ELSE cpu'[c].inst

\* C26: no core holds the guards of both locks, and a step of a call on
\* one instance leaves the other instance, its lock flag and its free
\* lists, as it is.
C26_Independent ==
    [][\A c \in Cores :
          /\ cpu'[c].guards # Insts
          /\ (cpu'[c] # cpu[c] /\ StepInst(c) = "page") => HEAP' = HEAP
          /\ (cpu'[c] # cpu[c] /\ StepInst(c) = "heap") =>
                (BUDDY_STORAGE' = BUDDY_STORAGE /\ BUDDY_INITIALIZED' = BUDDY_INITIALIZED)]_vars

\* One core is inside a heap operation while another is inside a page
\* operation.
C26_Witness ==
    \E c1, c2 \in Cores :
        /\ cpu[c1].inst = "page" /\ cpu[c1].pc = "write"
        /\ cpu[c2].inst = "heap" /\ cpu[c2].pc = "write"
        /\ cpu[c1].guards = {"page"} /\ cpu[c2].guards = {"heap"}


(***************************************************************************)
(* The same cores from the reset on: BUDDY_STORAGE is uninitialised, HEAP  *)
(* is None, and PageAllocator::init and init_heap are calls like the       *)
(* others.  PageAllocator::init is                                         *)
(*   "pi_swap"   BUDDY_INITIALIZED.swap(true), a panic when it was set     *)
(*   "pi_write"  BuddyAllocator::new(), init(start, end), and the write    *)
(*               of SpinLock::new(alloc) to BUDDY_STORAGE                  *)
(* init_heap is a heap call of kind "init".                                *)
(***************************************************************************)
InitBoot ==
    /\ SmpIdle
    /\ BuddyIdle /\ SpinIdle /\ IrqIdle /\ RwIdle /\ HeapIdle /\ ScenIdle /\ TblIdle

\* PageAllocator::init(start, end) is called.
BCallPageInit(c, reg) ==
    /\ cstate = "run"
    /\ cpu[c].pc = "idle"
    /\ cpu' = [cpu EXCEPT ![c] = [IdleCtx EXCEPT !.pc = "pi_swap", !.inst = "page",
                                                 !.kind = "init", !.reg = reg]]
    /\ UNCHANGED <<BUDDY_INITIALIZED, BUDDY_STORAGE, HEAP, owned, lin, cstate, notSmp>>

\* Mutant: the value that the swap returns is ignored.
BPageSwap_again(c) ==
    /\ cstate = "run"
    /\ cpu[c].pc = "pi_swap"
    /\ BUDDY_INITIALIZED' = TRUE
    /\ cpu' = [cpu EXCEPT ![c].pc = "pi_write"]
    /\ UNCHANGED <<BUDDY_STORAGE, HEAP, owned, lin, cstate, notSmp>>

\* if BUDDY_INITIALIZED.swap(true) { panic!("PageAllocator initialized twice") }
BPageSwap(c) ==
    /\ cstate = "run"
    /\ cpu[c].pc = "pi_swap"
    /\ BUDDY_INITIALIZED' = TRUE
    /\ IF BUDDY_INITIALIZED
       THEN CorePanic(c)
       ELSE /\ cpu' = [cpu EXCEPT ![c].pc = "pi_write"]
            /\ UNCHANGED cstate
    /\ UNCHANGED <<BUDDY_STORAGE, HEAP, owned, lin, notSmp>>

\* alloc.init(start, end); (*storage_ptr).write(SpinLock::new(alloc)).
\* A write while another core holds the lock that it took in the
\* unwritten storage races with that core's accesses: "ub", nothing is
\* known of what follows.
BPageWrite(c) ==
    /\ cstate = "run"
    /\ cpu[c].pc = "pi_write"
    /\ LET b == init(new(CorePageSize), cpu[c].reg[1], cpu[c].reg[2])
       IN  /\ BUDDY_STORAGE' = [written |-> TRUE, locked |-> FALSE, b |-> b]
           /\ lin' = [lin EXCEPT !.page = [b |-> b, hdr |-> EmptyMem]]
    /\ cpu' = [cpu EXCEPT ![c] = IdleCtx]
    /\ cstate' = IF \E d \in Cores : "page" \in cpu[d].guards THEN "ub" ELSE cstate
    /\ UNCHANGED <<BUDDY_INITIALIZED, HEAP, owned, notSmp>>

\* init_heap(start, end) is called.
BCallHeapInit(c, reg) ==
    /\ cstate = "run"
    /\ cpu[c].pc = "idle"
    /\ cpu' = [cpu EXCEPT ![c] = [IdleCtx EXCEPT !.pc = "lock", !.inst = "heap",
                                                 !.kind = "init", !.reg = reg]]
    /\ UNCHANGED <<BUDDY_INITIALIZED, BUDDY_STORAGE, HEAP, owned, lin, cstate, notSmp>>

NextBoot ==
    \/ \E c \in Cores : \E r \in CorePageRegions : BCallPageInit(c, r)
    \/ \E c \in Cores : BPageSwap(c)
    \/ \E c \in Cores : BPageWrite(c)
    \/ \E c \in Cores : \E r \in CoreHeapRegions : BCallHeapInit(c, r)
    \/ NextCores

SpecBoot == InitBoot /\ [][NextBoot]_vars

\* C27: a core that PageAllocator::get() has returned to, and that is in
\* the lock() or in the buddy operation of with_allocator, works on a
\* BUDDY_STORAGE that init has written.
C27_GetImpliesStorageWritten ==
    \A c \in Cores :
        (cpu[c].inst = "page" /\ cpu[c].kind = "alloc"
            /\ cpu[c].pc \in {"lock", "read", "write", "drop"})
        => BUDDY_STORAGE.written

\* C28: a PageAllocator::init that finds BUDDY_INITIALIZED set, and an
\* init_heap that finds HEAP to be Some, end in the panic with the
\* allocator in BUDDY_STORAGE, respectively in HEAP, as it was.
C28_SecondInitAborts ==
    [][\A c \in Cores :
          /\ (cpu[c].pc = "pi_swap" /\ BUDDY_INITIALIZED /\ cpu'[c] # cpu[c])
                => (cpu'[c].pc = "panicked" /\ cstate' = "panic"
                    /\ BUDDY_STORAGE' = BUDDY_STORAGE)
          /\ (cpu[c].pc = "read" /\ cpu[c].kind = "init" /\ HEAP.is_some
                /\ cpu'[c] # cpu[c])
                => (cpu'[c].pc = "panicked" /\ cstate' = "panic" /\ HEAP' = HEAP)]_vars

\* A second init of an allocator that has handed out a block has ended in
\* the panic.
C28_Witness ==
    \E c \in Cores :
        /\ cstate = "panic"
        /\ cpu[c].pc = "panicked" /\ cpu[c].kind = "init"
        /\ \E d \in Cores : \E b \in owned[d] : b.inst = cpu[c].inst
        /\ cpu[c].inst = "page" => BUDDY_STORAGE.written /\ BUDDY_STORAGE.b = lin.page.b
        /\ cpu[c].inst = "heap" => HEAP.is_some /\ HEAP.b = lin.heap.b


(***************************************************************************)
(* The accessors of the table handles (kernel/src/mm/page_table.rs).  ba   *)
(* is the BuddyAllocator of the page allocator over 4096-byte pages; the   *)
(* handles come from alloc_l1_table and alloc_l2_table, and the kernel's   *)
(* own L1Table is built on the static l1_page_table: [u32; 4096].          *)
(***************************************************************************)
\* The page size, min_block_size of the page allocator.
TABLE_PAGE_SIZE == 4096

\* size_of::<u32>(), the size of a table entry.
ENTRY_SIZE == 4

\* Ranges handed to PageAllocator::init: 8 pages, unaligned at both ends.
TableRegions == { <<65000, 100000>> }

\* The address of the static l1_page_table.
TableKernelL1 == {16384}

\* Indices and values handed to the accessors.
EntryIndices == {0, 255, 256, 4095, 4096}
EntryValues == {1, 2}

\* alloc_l1_table and alloc_l2_table.
TableTypes == { ty \in HandleTypes : ty.kind \in {"L1Table", "L2Table"} }

\* Mutant: the L2Table accessors check the index against the L1 bound.
index_in_bounds_l1(kind, index) == index < 4096

\* assert!(index < 4096) of L1Table, assert!(index < 256) of L2Table.
index_in_bounds(kind, index) ==
    IF kind = "L1Table" THEN index < 4096 ELSE index < 256

\* self.addr.as_ptr().add(index) on a *mut u32.
entry_ptr(base, index) == (base + ENTRY_SIZE * index) % WORD

InitTable ==
    /\ ba = new(TABLE_PAGE_SIZE)
    /\ phase = "new"
    /\ region = <<0, 0>>
    /\ live = {}
    /\ last = [op |-> "new", order |-> 0, addr |-> NONE, imm |-> FALSE,
               own |-> FALSE, aorder |-> NONE, again |-> FALSE]
    /\ handles = {}
    /\ TblIdle
    /\ SpinIdle /\ IrqIdle /\ RwIdle /\ HeapIdle /\ ScenIdle /\ SmpIdle

\* The record of an accessor call on the handle h.
Accessed(op, h, index) ==
    [op |-> op, kind |-> h.kind, base |-> h.addr, order |-> h.order, index |-> index,
     touched |-> IF index_in_bounds(h.kind, index)
                 THEN entry_ptr(h.addr, index) .. (entry_ptr(h.addr, index) + ENTRY_SIZE - 1)
                 ELSE {},
     abort |-> ~index_in_bounds(h.kind, index)]

\* set_entry(index, value): the assert!, then write_volatile.
SetEntry(h, index, value) ==
    /\ access' = Accessed("set_entry", h, index)
    /\ IF index_in_bounds(h.kind, index)
       THEN /\ entry_ptr(h.addr, index) \in DOMAIN entries
               \/ Cardinality(DOMAIN entries) < MaxEntries
            /\ entries' = (entry_ptr(h.addr, index) :> value) @@ entries
       ELSE UNCHANGED entries

\* get_entry(index): the assert!, then read_volatile.
GetEntry(h, index) ==
    /\ access' = Accessed("get_entry", h, index)
    /\ UNCHANGED entries

\* l1.set_entry / l2.set_entry on a handle that an allocation returned.
TSetEntry(h, index, value) ==
    /\ phase = "ready"
    /\ h \in handles
    /\ h.kind \in {"L1Table", "L2Table"}
    /\ SetEntry(h, index, value)
    /\ phase' = IF index_in_bounds(h.kind, index) THEN phase ELSE "panic"
    /\ UNCHANGED <<ba, region, live, last, handles, notBuddyTbl>>

\* l1.get_entry / l2.get_entry on a handle that an allocation returned.
TGetEntry(h, index) ==
    /\ phase = "ready"
    /\ h \in handles
    /\ h.kind \in {"L1Table", "L2Table"}
    /\ GetEntry(h, index)
    /\ phase' = IF index_in_bounds(h.kind, index) THEN phase ELSE "panic"
    /\ UNCHANGED <<ba, region, live, last, handles, notBuddyTbl>>

\* with_kernel_l1(|l1| l1.set_entry(index, value)), the body of
\* mmu::set_l1_entry and install_l2_table: the handle is built on the
\* static table, the entry is set, and the handle is dropped when the call
\* returns; the panic of the assert! ends the kernel before the drop.
TWithKernelL1(table, index, value) ==
    /\ phase \in {"ready", "corrupt"}
    /\ LET h == [kind |-> "L1Table", addr |-> table, order |-> 2, freed |-> FALSE]
       IN  /\ SetEntry(h, index, value)
           /\ IF index_in_bounds(h.kind, index)
              THEN HandleDrop(h)
              ELSE phase' = "panic" /\ UNCHANGED <<ba, live, last>>
    /\ UNCHANGED <<region, handles, notBuddyTbl>>

NextTable ==
    \/ \E r \in TableRegions : PInit(r[1], r[2])
    \/ \E ty \in TableTypes : Cardinality(handles) < MaxTables /\ PAlloc(ty)
    \/ \E h \in handles : PDrop(h)
    \/ \E h \in handles, i \in EntryIndices, v \in EntryValues : TSetEntry(h, i, v)
    \/ \E h \in handles, i \in EntryIndices : TGetEntry(h, i)
    \/ \E t \in TableKernelL1, i \in EntryIndices, v \in EntryValues : TWithKernelL1(t, i, v)

SpecTable == InitTable /\ [][NextTable]_vars

\* The bytes of the block that a table handle owns: order 2 for an
\* L1Table, order 0 for an L2Table, of 4096-byte pages.
OwnedBytes(kind, base) ==
    base .. (base + TABLE_PAGE_SIZE * (2 ^ (IF kind = "L1Table" THEN 2 ELSE 0)) - 1)

ISIZE_MAX == 2 ^ (USIZE_BITS - 1) - 1

\* Layouts <<size, align>> handed to alloc: small ones; the least size
\* that no block holds with its header; sizes up to isize::MAX.
AllocLayouts ==
    { <<1, 1>>, <<40, 8>>, <<1, 16>>,
      <<MIN_BLOCK_SIZE * (2 ^ MAX_ORDER) - SIZE_OF_HEADER + 1, 8>>,
      <<2 ^ (USIZE_BITS - 2), 1>>,
      <<ISIZE_MAX - 7, 8>>, <<ISIZE_MAX - 6, 1>>, <<ISIZE_MAX, 1>> }

InitAlloc ==
    /\ heap \in { [is_some |-> TRUE, b |-> init(new(MIN_BLOCK_SIZE), r[1], r[2])] :
                      r \in HeapRegions }
    /\ heap_locked = FALSE
    /\ hdr = EmptyMem
    /\ hptrs = {}
    /\ hstack = << [pc |-> "idle", op |-> NoOp] >>
    /\ hlast = NoCall
    /\ hstate = "run"
    /\ BuddyIdle /\ SpinIdle /\ IrqIdle /\ RwIdle /\ ScenIdle /\ SmpIdle /\ TblIdle

\* alloc(layout): a call whose order search does not end never returns.
AAlloc(size, align) ==
    /\ hstate = "run"
    /\ Cardinality(hptrs) < HeapMaxLive
    /\ LET r == alloc(heap.b, hdr, size, align)
       IN  IF r.hung
           THEN /\ hstate' = "hung"
                /\ hlast' = [NoCall EXCEPT !.op = "alloc", !.align = align, !.size = size]
                /\ UNCHANGED <<heap, hdr, hptrs>>
           ELSE /\ heap' = [heap EXCEPT !.b = r.ba]
                /\ hdr' = r.hdr
                /\ hptrs' = IF r.res = NONE THEN hptrs
                            ELSE hptrs \cup {[ptr |-> r.res, base |-> r.base,
                                              order |-> r.order, align |-> align,
                                              size |-> size, tag |-> r.res]}
                /\ hlast' = [NoCall EXCEPT !.op = "alloc",
                                           !.ptr = IF r.res = NONE THEN NULL ELSE r.res,
                                           !.base = IF r.res = NONE THEN NULL ELSE r.base,
                                           !.order = r.order, !.align = align,
                                           !.size = size]
                /\ UNCHANGED hstate
    /\ UNCHANGED <<heap_locked, hstack, notHeap>>

\* free(ptr) of a pointer that alloc returned.
AFree(p, garbage) ==
    /\ hstate = "run"
    /\ p \in hptrs
    /\ LET r == free(heap.b, hdr, p.ptr, garbage)
       IN  /\ ~r.hung
           /\ heap' = [heap EXCEPT !.b = r.ba]
           /\ hdr' = r.hdr
           /\ hlast' = [NoCall EXCEPT !.op = "free", !.ptr = p.ptr, !.faddr = r.faddr,
                                      !.forder = r.forder, !.base = p.base,
                                      !.order = p.order, !.align = p.align]
           /\ hstate' = IF r.faddr = p.base /\ r.forder = p.order THEN "run" ELSE "corrupt"
    /\ hptrs' = hptrs \ {p}
    /\ UNCHANGED <<heap_locked, hstack, notHeap>>

NextAlloc ==
    \/ \E l \in AllocLayouts : AAlloc(l[1], l[2])
    \/ \E p \in hptrs : \E g \in GarbageBytes : AFree(p, g)

SpecAlloc == InitAlloc /\ [][NextAlloc]_vars

\* C38: from every state reached by alloc and free calls, alloc(layout)
\* returns for every layout, and for every layout whose size with the
\* header rounded up to the alignment is above min_block_size << MAX_ORDER,
\* up to the size isize::MAX, it returns no value and leaves the free
\* lists as they were.
C38_AllocTerminates ==
    hstate = "run" =>
        \A l \in AllocLayouts :
            LET r == alloc(heap.b, hdr, l[1], l[2])
            IN  /\ ~r.hung
                /\ l[1] + HeaderRoom(l[2]) > BlockSize(heap.b, MAX_ORDER) =>
                       (r.res = NONE /\ r.ba = heap.b)

====
